---- MODULE Spec2Model ----
(***************************************************************************)
(* Multi-persona research orchestration of notebooklm_mcp:                 *)
(* tools/persona.py (session store, persona_setup, persona_query and its   *)
(* three strategies, persona_synthesize), tools/chat.py                    *)
(* (_active_conversations, chat_ask, chat_clear), client.py (get_client,   *)
(* close_client) and persona_registry.py (PERSONA_POOL, DOMAIN_KEYWORDS,   *)
(* classify_domain, recommend_personas).                                   *)
(*                                                                         *)
(* Eight specifications share the variables: Spec (setup and queries),     *)
(* SynthSpec (with persona_synthesize), ConvSpec (conversation continuity),*)
(* ChatSpec (a query with chat_ask and chat_clear), StoreSpec (the session *)
(* store under several setups), ClientSpec (the shared client), LiveSpec   *)
(* (the queries under fair scheduling) and RecSpec (one call of            *)
(* recommend_personas).                                                    *)
(*                                                                         *)
(* The program is a single asyncio event loop.  A coroutine runs without   *)
(* interruption from one suspension point (an await on the backend) to the *)
(* next, so every action below is one such uninterrupted run.              *)
(***************************************************************************)
EXTENDS Integers, Sequences, FiniteSets, TLC

(***************************************************************************)
(* Bounds of the exploration.                                              *)
(***************************************************************************)
MaxSetups == 1          \* persona_setup calls explored
MaxCalls == 2           \* persona_query calls explored
MaxAsks == 4            \* total client.chat.ask calls dispatched by queries
MaxConv == 2            \* distinct conversation ids the backend hands out
MaxSynths == 1          \* persona_synthesize calls explored
MaxCountArg == 5        \* largest max_count recommend_personas is called with
MaxChats == 3           \* chat_ask and chat_clear calls explored
MaxStoreSetups == 2     \* persona_setup calls explored in StoreSpec
MaxGets == 4            \* get_client and close_client calls explored

(***************************************************************************)
(* Python dicts keep insertion order.  A dict is a sequence of entries     *)
(* [k |-> key, v |-> value] with pairwise different keys.                  *)
(***************************************************************************)
Has(d, key) == \E i \in 1..Len(d) : d[i].k = key

Get(d, key) == d[CHOOSE i \in 1..Len(d) : d[i].k = key].v

Put(d, key, val) ==
    IF Has(d, key)
    THEN [i \in 1..Len(d) |-> IF d[i].k = key THEN [k |-> key, v |-> val] ELSE d[i]]
    ELSE Append(d, [k |-> key, v |-> val])

Pop(d, key) == SelectSeq(d, LAMBDA e : e.k # key)

Keys(d) == [i \in 1..Len(d) |-> d[i].k]

KeySet(d) == {d[i].k : i \in 1..Len(d)}

RECURSIVE Update(_, _)
\* d.update(e) / a loop of d[k] = v over the entries of e, in order
Update(d, e) == IF e = <<>> THEN d ELSE Update(Put(d, Head(e).k, Head(e).v), Tail(e))

Min(a, b) == IF a <= b THEN a ELSE b

(***************************************************************************)
(* persona_registry.PERSONA_POOL, in registration order.                   *)
(***************************************************************************)
PERSONA_POOL == <<
    [key |-> "devil_advocate", red_blue |-> "red", source_bias |-> "counter_evidence",
     domains |-> <<"*">>],
    [key |-> "synthesizer", red_blue |-> "neutral", source_bias |-> "balanced",
     domains |-> <<"*">>],
    [key |-> "practitioner", red_blue |-> "neutral", source_bias |-> "practical",
     domains |-> <<"*">>],
    [key |-> "futurist", red_blue |-> "blue", source_bias |-> "balanced",
     domains |-> <<"*">>],
    [key |-> "tech_architect", red_blue |-> "neutral", source_bias |-> "balanced",
     domains |-> <<"technology", "engineering", "software", "hardware">>],
    [key |-> "tech_optimist", red_blue |-> "blue", source_bias |-> "supportive",
     domains |-> <<"technology", "engineering", "science">>],
    [key |-> "market_analyst", red_blue |-> "neutral", source_bias |-> "balanced",
     domains |-> <<"business", "finance", "investment", "startup">>],
    [key |-> "risk_assessor", red_blue |-> "red", source_bias |-> "counter_evidence",
     domains |-> <<"business", "finance", "investment", "technology">>],
    [key |-> "business_strategist", red_blue |-> "neutral", source_bias |-> "balanced",
     domains |-> <<"business", "startup", "management">>],
    [key |-> "methodology_critic", red_blue |-> "red", source_bias |-> "counter_evidence",
     domains |-> <<"academic", "science", "research", "medical">>],
    [key |-> "literature_reviewer", red_blue |-> "neutral", source_bias |-> "balanced",
     domains |-> <<"academic", "science", "research">>],
    [key |-> "policy_analyst", red_blue |-> "neutral", source_bias |-> "regulatory",
     domains |-> <<"policy", "legal", "regulation", "government">>],
    [key |-> "ethics_reviewer", red_blue |-> "red", source_bias |-> "counter_evidence",
     domains |-> <<"policy", "technology", "medical", "social">>],
    [key |-> "clinical_expert", red_blue |-> "neutral", source_bias |-> "balanced",
     domains |-> <<"medical", "healthcare", "pharmaceutical">>],
    [key |-> "startup_advisor", red_blue |-> "blue", source_bias |-> "balanced",
     domains |-> <<"startup", "business", "technology">>],
    [key |-> "educator", red_blue |-> "neutral", source_bias |-> "balanced",
     domains |-> <<"education", "academic", "technology">>],
    [key |-> "data_analyst", red_blue |-> "neutral", source_bias |-> "balanced",
     domains |-> <<"business", "finance", "science", "technology">>],
    [key |-> "geopolitical_analyst", red_blue |-> "neutral", source_bias |-> "balanced",
     domains |-> <<"geopolitics", "policy", "business", "technology">>] >>

PoolKeys == {PERSONA_POOL[i].key : i \in 1..Len(PERSONA_POOL)}

\* persona_registry.get_persona for a key of the pool (None otherwise: see PoolKeys)
get_persona(key) == PERSONA_POOL[CHOOSE i \in 1..Len(PERSONA_POOL) : PERSONA_POOL[i].key = key]

(***************************************************************************)
(* Texts.  A text is a record; what the model keeps of a string is what it *)
(* was built from and, where slicing needs it, its length in characters.   *)
(***************************************************************************)
EmptyText == [kind |-> "empty", len |-> 0]

NoText == [kind |-> "none", len |-> 0]

QuestionText(q) == [kind |-> "question", id |-> q]

\* result.answer of the backend for the ask of persona key in query call c
AnswerText(c, key, n) == [kind |-> "answer", call |-> c, key |-> key, len |-> n]

\* f"[Error: {e}]" (stage 0) and f"[Error at stage {stage}: {e}]";
\* the exception text e has n characters, the stage number one digit
ErrorMarker(stage, n) ==
    [kind |-> "error", stage |-> stage, exc |-> n,
     len |-> (IF stage = 0 THEN 9 ELSE 20) + n]

IsErrorMarker(t) == t.kind = "error"

\* previous_answer[:2000] is s[:n] with n = 2000
PREV_LIMIT == 2000

\* Slice, for an s that is embedded whole
SliceWhole(t, n) == t

Slice(t, n) == IF t.len <= n THEN t ELSE [kind |-> "slice", of |-> t, len |-> n]

\* the stage prompt of _query_cascading for stage > 1
CascadePrompt(previous_answer, role, question) ==
    [kind |-> "cascade_prompt", prev |-> Slice(previous_answer, PREV_LIMIT),
     role |-> role, question |-> question]

\* team_prompt of _ask_team; team is "blue" or "red"
TeamPrompt(team, question) ==
    [kind |-> "team_prompt", team |-> team,
     stance |-> (IF team = "blue" THEN "support" ELSE "oppose"),
     question |-> question]

(***************************************************************************)
(* Inputs.                                                                 *)
(***************************************************************************)
SessionIds == {"ps-1", "ps-2"}

Topics == {"topic"}

Strategies == {"independent", "cascading", "red_blue"}

\* the questions are told apart by the call that asks them: call c asks c
Questions == 1..MaxCalls

\* persona_keys arguments of persona_setup; the first has more than four keys
SetupKeyLists == {
    <<"devil_advocate", "risk_assessor", "futurist", "policy_analyst", "no_such_persona">>,
    <<"futurist", "synthesizer">>,
    <<"futurist", "futurist">>,
    <<"futurist", "no_such_persona">> }

\* the lists passed as persona_keys to persona_query
QueryKeyLists == {
    <<>>,
    <<"risk_assessor", "devil_advocate", "tech_optimist">>,
    <<"synthesizer", "futurist", "synthesizer">> }

\* persona_keys: list[str] | None = None.  The argument is a record: given
\* tells a list from None, list is the list (<<>> for None)
None == [given |-> FALSE, list |-> <<>>]

KeyList(list) == [given |-> TRUE, list |-> list]

QueryKeyArgs == {None} \cup {KeyList(list) : list \in QueryKeyLists}

\* lengths of answers and of exception texts, in characters
AnswerLens == {2500}

ExcLens == {30}

\* what an await on client.chat.ask can produce: an exception, or a result
\* with an answer and an optional conversation_id (0: absent or empty)
Outcomes ==
    {[ok |-> FALSE, len |-> n, conversation_id |-> 0] : n \in ExcLens}
    \cup {[ok |-> TRUE, len |-> n, conversation_id |-> h] : n \in AnswerLens, h \in 0..MaxConv}

\* the outcomes of a backend that returns no conversation_id
PlainOutcomes == {out \in Outcomes : out.conversation_id = 0}

VARIABLES
    heap,                   \* the PersonaSession objects, in creation order
    _persona_sessions,      \* session id -> index of its object in heap
    _active_conversations,  \* chat._active_conversations: notebook id -> conversation id
    setups,                 \* the persona_setup coroutines
    calls,                  \* the persona_query coroutines
    nextNb,                 \* notebooks created by the backend so far
    askCount,               \* chat.ask calls dispatched by queries so far
    synths,                 \* the persona_synthesize coroutines
    rec,                    \* the frame of a recommend_personas call
    chats,                  \* the chat_ask and chat_clear coroutines
    _client,                \* client._client: the shared client object, 0 for None
    clients,                \* the NotebookLMClient objects, in construction order
    gets                    \* the get_client and close_client coroutines

\* the state of client.py
clientVars == <<_client, clients, gets>>

vars == <<heap, _persona_sessions, _active_conversations, setups, calls, nextNb, askCount,
          synths, rec, chats, clientVars>>

\* no recommend_personas call is in progress
NoFrame == [pc |-> "idle"]

\* at most 4 notebooks per persona_setup (persona_keys[:4])
NbIds == 1..(4 * MaxSetups)

Init ==
    /\ heap = <<>>
    /\ _persona_sessions = [sid \in SessionIds |-> 0]       \* 0: no such key
    /\ _active_conversations = [nb \in NbIds |-> 0]         \* 0: no such key
    /\ setups = <<>>
    /\ calls = <<>>
    /\ nextNb = 0
    /\ askCount = 0
    /\ synths = <<>>
    /\ rec = NoFrame
    /\ chats = <<>>
    /\ _client = 0
    /\ clients = <<>>
    /\ gets = <<>>

(***************************************************************************)
(* persona_setup                                                           *)
(***************************************************************************)
\* persona_keys[:4]
FirstFour(keys) == SubSeq(keys, 1, Min(Len(keys), 4))

\* an entry of valid_personas: the fields of the configuration the
\* strategies read
PersonaConfig(key) ==
    [key |-> key, role_ko |-> key,
     source_bias |-> get_persona(key).source_bias,
     red_blue |-> get_persona(key).red_blue]

\* ConfigDict, built from all of valid_personas but the last
ConfigDictDropLast(valid) ==
    Update(<<>>, [i \in 1..(Len(valid) - 1) |-> [k |-> valid[i].key, v |-> valid[i]]])

RECURSIVE ConfigDict(_)
\* {p["key"]: p for p in valid_personas}
ConfigDict(valid) ==
    IF valid = <<>> THEN <<>>
    ELSE Update(<<[k |-> Head(valid).key, v |-> Head(valid)]>>, ConfigDict(Tail(valid)))

\* persona_setup up to its first await on client.notebooks.create: the
\* keys are cut to four and validated, and the session id is generated.
\* sid is the value of _generate_session_id(), limit the number of calls
\* explored
SetupStartWithin(limit, topic, persona_keys, sid) ==
    /\ Len(setups) < limit
    /\ LET keys == FirstFour(persona_keys)
           bad == \E i \in 1..Len(keys) : keys[i] \notin PoolKeys
       IN setups' = Append(setups,
            IF bad
            THEN [topic |-> topic, persona_keys |-> persona_keys,
                  session_id |-> "", valid_personas |-> <<>>,
                  notebooks |-> <<>>, i |-> 0, pc |-> "done", result |-> "unknown_key"]
            ELSE IF keys = <<>>
            THEN [topic |-> topic, persona_keys |-> persona_keys,
                  session_id |-> sid, valid_personas |-> <<>>,
                  notebooks |-> <<>>, i |-> 0, pc |-> "done", result |-> "no_notebooks"]
            ELSE [topic |-> topic, persona_keys |-> persona_keys, session_id |-> sid,
                  valid_personas |-> [i \in 1..Len(keys) |-> PersonaConfig(keys[i])],
                  notebooks |-> <<>>, i |-> 1, pc |-> "create", result |-> ""])
    /\ UNCHANGED <<heap, _persona_sessions, _active_conversations, calls, nextNb, askCount>>
    /\ UNCHANGED <<synths, rec, chats, clientVars>>

SetupStart(topic, persona_keys, sid) ==
    SetupStartWithin(MaxSetups, topic, persona_keys, sid)

\* NoNotebooks, for a setup that goes on without a notebook
NoNotebooksNever(notebooks) == FALSE

\* "if not notebooks" after the creation loop
NoNotebooks(notebooks) == notebooks = <<>>

\* the await on client.notebooks.create for valid_personas[i] returns
\* (ok) or raises; after the last one, setup fails if no notebook exists
SetupCreate(s, ok) ==
    /\ setups[s].pc = "create"
    /\ LET su == setups[s]
           p == su.valid_personas[su.i]
           nbs == IF ok THEN Put(su.notebooks, p.key, nextNb + 1) ELSE su.notebooks
           last == su.i = Len(su.valid_personas)
       IN /\ setups' = [setups EXCEPT ![s] =
                [su EXCEPT !.notebooks = nbs,
                           !.i = su.i + 1,
                           !.pc = IF ~last THEN "create"
                                  ELSE IF NoNotebooks(nbs) THEN "done" ELSE "save",
                           !.result = IF last /\ NoNotebooks(nbs)
                                      THEN "no_notebooks" ELSE ""]]
          /\ nextNb' = IF ok THEN nextNb + 1 ELSE nextNb
    /\ UNCHANGED <<heap, _persona_sessions, _active_conversations, calls, askCount>>
    /\ UNCHANGED <<synths, rec, chats, clientVars>>

\* after the awaits of steps 2-4 (sources, chat.configure, research.start,
\* whose failures are caught): the session object is built and stored
SetupSave(s) ==
    /\ setups[s].pc = "save"
    /\ LET su == setups[s]
       IN /\ heap' = Append(heap,
                [session_id |-> su.session_id, topic |-> su.topic,
                 notebooks |-> su.notebooks,
                 personas |-> ConfigDict(su.valid_personas),
                 query_history |-> <<>>, last_results |-> <<>>])
          /\ _persona_sessions' = [_persona_sessions EXCEPT ![su.session_id] = Len(heap) + 1]
          /\ setups' = [setups EXCEPT ![s] = [su EXCEPT !.pc = "done", !.result = "ok"]]
    /\ UNCHANGED <<_active_conversations, calls, nextNb, askCount>>
    /\ UNCHANGED <<synths, rec, chats, clientVars>>

(***************************************************************************)
(* persona_query and the three strategies                                  *)
(***************************************************************************)
\* Lookup, for a store that answers an unknown id with its newest session
LookupNewest(store, session_id) ==
    IF store[session_id] # 0 THEN store[session_id]
    ELSE IF \E sid \in DOMAIN store : store[sid] # 0
    THEN CHOOSE o \in {store[sid] : sid \in DOMAIN store} :
            \A sid \in DOMAIN store : store[sid] <= o
    ELSE 0

\* _persona_sessions.get(session_id): the session object, 0 for None
Lookup(store, session_id) == store[session_id]

RECURSIVE Restrict(_, _)
\* {k: notebooks[k] for k in persona_keys if k in notebooks}
Restrict(persona_keys, notebooks) ==
    IF persona_keys = <<>> THEN <<>>
    ELSE LET key == Head(persona_keys)
             rest == Restrict(Tail(persona_keys), notebooks)
         IN IF Has(notebooks, key)
            THEN Update(<<[k |-> key, v |-> Get(notebooks, key)]>>, rest)
            ELSE rest

\* "if persona_keys:" is false for None and for the empty list
Truthy(persona_keys) == persona_keys.given /\ persona_keys.list # <<>>

\* "Determine which personas to query"
ActivePersonas(session, persona_keys) ==
    IF Truthy(persona_keys) THEN Restrict(persona_keys.list, session.notebooks)
    ELSE session.notebooks

\* TeamOf, sending only the counter_evidence neutrals to the red team
TeamOfRegulatoryBlue(p) ==
    IF p.red_blue = "red" THEN "red"
    ELSE IF p.red_blue = "blue" THEN "blue"
    ELSE IF p.source_bias \in {"counter_evidence"} THEN "red"
    ELSE "blue"

\* which team the classification loop of _query_red_blue puts a persona in
TeamOf(p) ==
    IF p.red_blue = "red" THEN "red"
    ELSE IF p.red_blue = "blue" THEN "blue"
    ELSE IF p.source_bias \in {"counter_evidence", "regulatory"} THEN "red"
    ELSE "blue"

\* "Classify into teams": blue_team and red_team after the loop
Classify(active_personas, personas) ==
    [blue |-> SelectSeq(active_personas, LAMBDA e : TeamOf(Get(personas, e.k)) = "blue"),
     red |-> SelectSeq(active_personas, LAMBDA e : TeamOf(Get(personas, e.k)) = "red")]

\* Rebalance, taking the last red where the code takes the first
RebalanceLastRed(t) ==
    IF t.blue = <<>> /\ t.red # <<>>
    THEN LET last_key == t.red[Len(t.red)].k
         IN [blue |-> Put(t.blue, last_key, Get(t.red, last_key)),
             red |-> Pop(t.red, last_key)]
    ELSE IF t.red = <<>> /\ t.blue # <<>>
    THEN LET last_key == t.blue[Len(t.blue)].k
         IN [blue |-> Pop(t.blue, last_key),
             red |-> Put(t.red, last_key, Get(t.blue, last_key))]
    ELSE t

\* "Ensure both teams have at least one member"
Rebalance(t) ==
    IF t.blue = <<>> /\ t.red # <<>>
    THEN LET first_key == t.red[1].k
         IN [blue |-> Put(t.blue, first_key, Get(t.red, first_key)),
             red |-> Pop(t.red, first_key)]
    ELSE IF t.red = <<>> /\ t.blue # <<>>
    THEN LET last_key == t.blue[Len(t.blue)].k
         IN [blue |-> Pop(t.blue, last_key),
             red |-> Put(t.red, last_key, Get(t.blue, last_key))]
    ELSE t

\* ConversationArgIn, for an ask that passes the recorded conversation
\* whether or not continue_conversation is set
ConversationArgAlways(registry, continue_conversation, nb) == registry[nb]

\* kwargs["conversation_id"] of an ask on notebook nb, 0 when not passed;
\* registry is _active_conversations when the ask is built
ConversationArgIn(registry, continue_conversation, nb) ==
    IF continue_conversation /\ registry[nb] # 0 THEN registry[nb] ELSE 0

ConversationArg(continue_conversation, nb) ==
    ConversationArgIn(_active_conversations, continue_conversation, nb)

\* a coroutine _ask_one that gather has scheduled and that has not run yet;
\* conversation_id is the kwarg of its ask and returned is
\* result.conversation_id (0: absent or empty)
PendingAsk(key, nb, team, prompt) ==
    [key |-> key, nb |-> nb, team |-> team, prompt |-> prompt,
     status |-> "pending", conversation_id |-> 0, returned |-> 0, answer |-> NoText]

\* the asks of one team, in the order of the team's dict
TeamAsks(team, name, question) ==
    [i \in 1..Len(team) |-> PendingAsk(team[i].k, team[i].v, name, TeamPrompt(name, question))]

\* Remember, for an update that stores whatever the ask brought back
RememberAny(nb, out) == [_active_conversations EXCEPT ![nb] = out.conversation_id]

\* Remember, for an update that keeps a recorded conversation
RememberFirst(nb, out) ==
    IF out.ok /\ out.conversation_id # 0 /\ _active_conversations[nb] = 0
    THEN [_active_conversations EXCEPT ![nb] = out.conversation_id]
    ELSE _active_conversations

\* "Update conversation state" after a successful ask on notebook nb
Remember(nb, out) ==
    IF out.ok /\ out.conversation_id # 0
    THEN [_active_conversations EXCEPT ![nb] = out.conversation_id]
    ELSE _active_conversations

\* HistoryEntry, recording the default strategy whatever was asked for
HistoryEntryDefaultStrategy(question, strategy, active_personas) ==
    [question |-> question, strategy |-> "independent",
     persona_count |-> Len(active_personas)]

\* "Save to history"
HistoryEntry(question, strategy, active_personas) ==
    [question |-> question, strategy |-> strategy, persona_count |-> Len(active_personas)]

NoTeams == [blue |-> <<>>, red |-> <<>>]

\* what persona_query returns.  kind is "ok", "not_found" or "no_valid";
\* entries are the (key, answer) blocks of the returned text, in its order
Result(kind, strategy, entries) == [kind |-> kind, strategy |-> strategy, entries |-> entries]

NoResult == Result("", "", <<>>)

\* a persona_query coroutine that returned an error before any dispatch;
\* obj is the session object it found, 0 if none.  strategy and
\* continue_conversation are not read on this path and are left out.
FailedCall(session_id, question, persona_keys, obj, error) ==
    [session_id |-> session_id, question |-> question, strategy |-> "",
     persona_keys |-> persona_keys, continue_conversation |-> FALSE,
     session |-> obj, active_personas |-> <<>>, classified |-> NoTeams, teams |-> NoTeams,
     asks |-> <<>>, previous_answer |-> EmptyText, all_answers |-> <<>>,
     pc |-> "done", result |-> Result(error, "", <<>>)]

\* Results, leaving out the personas whose ask failed
ResultsSkipFailed(asks) ==
    LET ok == SelectSeq(asks, LAMBDA a : a.status # "failed")
    IN [i \in 1..Len(ok) |-> [k |-> ok[i].key, v |-> ok[i].answer]]

\* the (key, answer) pairs of a sequence of completed asks
Results(asks) == [i \in 1..Len(asks) |-> [k |-> asks[i].key, v |-> asks[i].answer]]

\* StagePersona, walking persona_list from its end
StagePersonaReversed(persona_list, stage) == persona_list[Len(persona_list) + 1 - stage]

\* the (persona_key, nb_id) of a stage in enumerate(persona_list, 1)
StagePersona(persona_list, stage) == persona_list[stage]

\* the ask of a stage, from its dispatch to the return of its await
StageAsk(key, nb, prompt, conv) ==
    [PendingAsk(key, nb, "", prompt) EXCEPT !.status = "inflight", !.conversation_id = conv]

\* the keys the rebalancing popped from the team the classification put
\* them in
Popped(classified, teams) ==
    (KeySet(classified.blue) \ KeySet(teams.blue)) \cup (KeySet(classified.red) \ KeySet(teams.red))

\* NotebooksAfterTeams, for teams that are views of session.notebooks: a pop
\* from a team removes the binding
NotebooksAfterTeamsAliased(notebooks, classified, teams) ==
    SelectSeq(notebooks, LAMBDA e : e.k \notin Popped(classified, teams))

\* session.notebooks once _query_red_blue has built its teams: blue_team
\* and red_team are dicts of their own, filled by the classification loop,
\* so the pops of the rebalancing do not reach session.notebooks, not even
\* when active_personas is session.notebooks itself (persona_keys is None)
NotebooksAfterTeams(notebooks, classified, teams) == notebooks

\* persona_query from its call to its first suspension: the session lookup,
\* the choice of the targeted personas and the dispatch of the strategy.
\* independent and red_blue suspend in asyncio.gather with their asks
\* scheduled; cascading suspends in the ask of stage 1.  The shared client
\* is connected (a session exists only after persona_setup connected it),
\* so await get_client() returns without suspending.
QueryStart(session_id, question, strategy, persona_keys, cont) ==
    /\ Len(calls) < MaxCalls
    /\ question = Len(calls) + 1
    /\ LET obj == Lookup(_persona_sessions, session_id)
       IN IF obj = 0
          THEN /\ calls' = Append(calls, FailedCall(session_id, question, persona_keys,
                                                    0, "not_found"))
               /\ UNCHANGED <<askCount, heap>>
          ELSE LET session == heap[obj]
                   active == ActivePersonas(session, persona_keys)
                   classified == Classify(active, session.personas)
                   teams == Rebalance(classified)
                   q == QuestionText(question)
               IN IF active = <<>>
                  THEN /\ calls' = Append(calls, FailedCall(session_id, question, persona_keys,
                                                            obj, "no_valid"))
                       /\ UNCHANGED <<askCount, heap>>
                  ELSE /\ askCount + Len(active) <= MaxAsks
                       /\ askCount' = askCount + Len(active)
                       /\ heap' = [heap EXCEPT ![obj].notebooks =
                                IF strategy = "red_blue"
                                THEN NotebooksAfterTeams(@, classified, teams) ELSE @]
                       /\ calls' = Append(calls,
                            [session_id |-> session_id, question |-> question,
                             strategy |-> strategy, persona_keys |-> persona_keys,
                             continue_conversation |-> cont,
                             session |-> obj, active_personas |-> active,
                             classified |-> IF strategy = "red_blue" THEN classified ELSE NoTeams,
                             teams |-> IF strategy = "red_blue" THEN teams ELSE NoTeams,
                             asks |->
                                IF strategy = "cascading"
                                THEN LET first == StagePersona(active, 1)
                                     IN <<StageAsk(first.k, first.v, q,
                                                   ConversationArg(cont, first.v))>>
                                ELSE IF strategy = "red_blue"
                                THEN TeamAsks(teams.blue, "blue", q) \o TeamAsks(teams.red, "red", q)
                                ELSE [i \in 1..Len(active) |->
                                        PendingAsk(active[i].k, active[i].v, "", q)],
                             previous_answer |-> EmptyText, all_answers |-> <<>>,
                             pc |-> IF strategy = "cascading" THEN "cascade" ELSE "gather",
                             result |-> NoResult])
    /\ UNCHANGED <<_persona_sessions, _active_conversations, setups, nextNb>>
    /\ UNCHANGED <<synths, rec, chats, clientVars>>

\* a scheduled _ask_one starts and runs to its await on client.chat.ask;
\* the event loop starts the tasks of one gather in the order it was given
AskIssue(c, i) ==
    /\ calls[c].pc = "gather"
    /\ calls[c].asks[i].status = "pending"
    /\ \A j \in 1..(i - 1) : calls[c].asks[j].status # "pending"
    /\ calls' = [calls EXCEPT ![c].asks[i] =
            [@ EXCEPT !.status = "inflight",
                      !.conversation_id = ConversationArg(calls[c].continue_conversation,
                                                          calls[c].asks[i].nb)]]
    /\ UNCHANGED <<heap, _persona_sessions, _active_conversations, setups, nextNb, askCount>>
    /\ UNCHANGED <<synths, rec, chats, clientVars>>

\* the answer _ask_one returns for outcome out of its ask
AskAnswer(c, ask, out) ==
    IF out.ok THEN AnswerText(c, ask.key, out.len) ELSE ErrorMarker(0, out.len)

\* ResultsAfterAsk, for an _ask_one that stores its answer itself
ResultsAfterAskStored(last_results, key, answer) == Put(last_results, key, answer)

\* session.last_results after an _ask_one has run to its end: the task
\* returns the pair (persona_key, answer) to gather and stores nothing
ResultsAfterAsk(last_results, key, answer) == last_results

\* the await of an _ask_one returns or raises and the task runs to its end
AskComplete(c, i, out) ==
    /\ calls[c].pc = "gather"
    /\ calls[c].asks[i].status = "inflight"
    /\ LET ask == calls[c].asks[i]
       IN /\ calls' = [calls EXCEPT ![c].asks[i] =
                    [@ EXCEPT !.status = IF out.ok THEN "ok" ELSE "failed",
                              !.returned = out.conversation_id,
                              !.answer = AskAnswer(c, ask, out)]]
          /\ _active_conversations' = Remember(ask.nb, out)
          /\ heap' = [heap EXCEPT ![calls[c].session].last_results =
                        ResultsAfterAsk(@, ask.key, AskAnswer(c, ask, out))]
    /\ UNCHANGED <<_persona_sessions, setups, nextNb, askCount>>
    /\ UNCHANGED <<synths, rec, chats, clientVars>>

\* AllDone, for a wait that returns with the first task that returned
FirstDone(asks) == \E i \in 1..Len(asks) : asks[i].status \in {"ok", "failed"}

\* AllDone, for a gather that never hands its results back
NeverDone(asks) == FALSE

\* asyncio.gather(*tasks) returns when every task has returned
AllDone(asks) == \A i \in 1..Len(asks) : asks[i].status \in {"ok", "failed"}

\* StoreResults, for a loop that stores no error marker
StoreResultsSkipErrors(last_results, results) ==
    Update(last_results, SelectSeq(results, LAMBDA e : ~IsErrorMarker(e.v)))

\* StoreResults, for a loop that starts from an empty mapping
StoreResultsFresh(last_results, results) == Update(<<>>, results)

\* StoreResults, for a loop that keeps the answer a persona already has
StoreResultsKeep(last_results, results) ==
    Update(last_results, SelectSeq(results, LAMBDA e : ~Has(last_results, e.k)))

\* StoreResults, for a store that keeps the last writer's entry only
StoreResultsLastWriter(last_results, results) ==
    Update(last_results, <<results[Len(results)]>>)

\* last_results after the "Store for later synthesis" loop over results
StoreResults(last_results, results) == Update(last_results, results)

\* ReplaceResults, for a cascade that merges into the mapping it found
ReplaceResultsMerge(last_results, all_answers) == Update(last_results, all_answers)

\* "session.last_results = all_answers" at the end of _query_cascading
ReplaceResults(last_results, all_answers) == all_answers

\* every task of the gather is done: the strategy resumes, stores the
\* answers and returns, and persona_query appends to the history and returns
QueryFinish(c) ==
    /\ calls[c].pc = "gather"
    /\ AllDone(calls[c].asks)
    /\ LET call == calls[c]
           session == heap[call.session]
           results == Results(call.asks)
       IN /\ heap' = [heap EXCEPT ![call.session] =
                [session EXCEPT
                    !.last_results = StoreResults(session.last_results, results),
                    !.query_history = Append(session.query_history,
                        HistoryEntry(call.question, call.strategy, call.active_personas))]]
          /\ calls' = [calls EXCEPT ![c] =
                [call EXCEPT !.pc = "done", !.result = Result("ok", call.strategy, results)]]
    /\ UNCHANGED <<_persona_sessions, _active_conversations, setups, nextNb, askCount>>
    /\ UNCHANGED <<synths, rec, chats, clientVars>>

\* StageAnswer, for a handler that records an empty answer for a failed stage
StageAnswerDropError(c, stage, ask, out) ==
    IF out.ok THEN AnswerText(c, ask.key, out.len) ELSE EmptyText

\* the answer of a cascading stage for outcome out of its ask
StageAnswer(c, stage, ask, out) ==
    IF out.ok THEN AnswerText(c, ask.key, out.len) ELSE ErrorMarker(stage, out.len)

\* the await of the current stage of _query_cascading returns or raises:
\* the stage's answer is recorded and either the next stage's ask is issued
\* or the cascade stores its answers and persona_query returns
CascadeStep(c, out) ==
    /\ calls[c].pc = "cascade"
    /\ LET call == calls[c]
           session == heap[call.session]
           stage == Len(call.asks)
           ask == call.asks[stage]
           answer == StageAnswer(c, stage, ask, out)
           done == [ask EXCEPT !.status = IF out.ok THEN "ok" ELSE "failed",
                               !.returned = out.conversation_id,
                               !.answer = answer]
           all_answers == Put(call.all_answers, ask.key, answer)
           registry == Remember(ask.nb, out)
           persona_list == call.active_personas
       IN /\ _active_conversations' = registry
          /\ IF stage < Len(persona_list)
             THEN LET next == StagePersona(persona_list, stage + 1)
                      p == Get(session.personas, next.k)
                      prompt == CascadePrompt(answer, p.role_ko, QuestionText(call.question))
                      conv == ConversationArgIn(registry, call.continue_conversation, next.v)
                  IN /\ calls' = [calls EXCEPT ![c] =
                            [call EXCEPT
                                !.asks = Append([call.asks EXCEPT ![stage] = done],
                                                StageAsk(next.k, next.v, prompt, conv)),
                                !.previous_answer = answer,
                                !.all_answers = all_answers]]
                     /\ UNCHANGED heap
             ELSE /\ heap' = [heap EXCEPT ![call.session] =
                        [session EXCEPT
                            !.last_results = ReplaceResults(session.last_results,
                                                            all_answers),
                            !.query_history = Append(session.query_history,
                                HistoryEntry(call.question, call.strategy,
                                             call.active_personas))]]
                  /\ calls' = [calls EXCEPT ![c] =
                        [call EXCEPT
                            !.asks = [call.asks EXCEPT ![stage] = done],
                            !.previous_answer = answer,
                            !.all_answers = all_answers,
                            !.pc = "done",
                            !.result = Result("ok", call.strategy,
                                              Results([call.asks EXCEPT ![stage] = done]))]]
    /\ UNCHANGED <<_persona_sessions, setups, nextNb, askCount>>
    /\ UNCHANGED <<synths, rec, chats, clientVars>>

(***************************************************************************)
(* persona_synthesize                                                      *)
(***************************************************************************)
\* synthesis_type arguments; "executive" is not a key of synthesis_prompts
SynthesisTypes == {"comprehensive", "decision_matrix", "debate_summary", "executive"}

\* synthesis_prompts.get(synthesis_type, synthesis_prompts["comprehensive"])
Template(synthesis_type) ==
    IF synthesis_type \in {"comprehensive", "decision_matrix", "debate_summary"}
    THEN synthesis_type
    ELSE "comprehensive"

\* PersonaAnswerText, for a loop that leaves the error markers out
PersonaAnswerTextSkipErrors(session) ==
    LET kept == SelectSeq(session.last_results, LAMBDA e : ~IsErrorMarker(e.v))
    IN [i \in 1..Len(kept) |->
            [name |-> kept[i].k,
             role |-> IF Has(session.personas, kept[i].k)
                      THEN Get(session.personas, kept[i].k).role_ko ELSE "",
             answer |-> kept[i].v]]

\* persona_answer_text: one "### [name] (role)" block with the answer for
\* every entry of last_results, in the order of the mapping
PersonaAnswerText(session) ==
    [i \in 1..Len(session.last_results) |->
        LET key == session.last_results[i].k
        IN [name |-> key,
            role |-> IF Has(session.personas, key)
                     THEN Get(session.personas, key).role_ko ELSE "",
            answer |-> session.last_results[i].v]]

\* template.format(topic=..., persona_answers=...); custom_instruction is None
SynthesisPrompt(session, synthesis_type) ==
    [kind |-> "synthesis_prompt", template |-> Template(synthesis_type),
     topic |-> session.topic, persona_answers |-> PersonaAnswerText(session)]

NoPrompt == [kind |-> "none"]

\* what persona_synthesize returns.  kind is "ok", "not_found", "no_results"
\* or "error"; personas and rounds are the "Personas:" and "Based on:" lines
SynthResult(kind, personas, rounds) == [kind |-> kind, personas |-> personas, rounds |-> rounds]

\* a persona_synthesize coroutine that returned an error before any await
FailedSynth(session_id, obj, error) ==
    [session_id |-> session_id, session |-> obj, synthesis_type |-> "",
     prompt |-> NoPrompt, first_nb_id |-> 0, backend |-> <<>>,
     pc |-> "done", result |-> SynthResult(error, <<>>, 0)]

\* NoResults, for a test that lets every session through
NoResultsNever(session) == FALSE

\* "if not session.last_results"
NoResults(session) == session.last_results = <<>>

\* persona_synthesize from its call to its await on client.sources.add_text:
\* the session lookup, the test of last_results and the prompt.  backend
\* lists the backend calls the coroutine has made
SynthStart(session_id, synthesis_type) ==
    /\ Len(synths) < MaxSynths
    /\ LET obj == Lookup(_persona_sessions, session_id)
       IN synths' = Append(synths,
            IF obj = 0 THEN FailedSynth(session_id, 0, "not_found")
            ELSE IF NoResults(heap[obj]) THEN FailedSynth(session_id, obj, "no_results")
            ELSE [session_id |-> session_id, session |-> obj,
                  synthesis_type |-> synthesis_type,
                  prompt |-> SynthesisPrompt(heap[obj], synthesis_type),
                  first_nb_id |-> heap[obj].notebooks[1].v,
                  backend |-> <<"add_text">>,
                  pc |-> "add_text", result |-> SynthResult("", <<>>, 0)])
    /\ UNCHANGED <<heap, _persona_sessions, _active_conversations, setups, calls, nextNb,
                   askCount, rec, chats, clientVars>>

\* the await on client.sources.add_text returns or raises (the exception is
\* logged) and client.chat.ask is called on the first notebook
SynthAddText(s) ==
    /\ synths[s].pc = "add_text"
    /\ synths' = [synths EXCEPT ![s] =
            [@ EXCEPT !.pc = "ask", !.backend = Append(@, "ask")]]
    /\ UNCHANGED <<heap, _persona_sessions, _active_conversations, setups, calls, nextNb,
                   askCount, rec, chats, clientVars>>

\* SessionAfterSynthesis, for a synthesis that counts as a query round
SessionAfterSynthesisRecorded(session, synthesis_type) ==
    [session EXCEPT !.query_history =
        Append(@, HistoryEntry(0, synthesis_type, session.notebooks))]

\* the session after persona_synthesize, which only reads it
SessionAfterSynthesis(session, synthesis_type) == session

\* the await on client.chat.ask returns or raises and persona_synthesize
\* returns: the report reads last_results and query_history as they are now
SynthAsk(s, ok) ==
    /\ synths[s].pc = "ask"
    /\ LET session == heap[synths[s].session]
       IN /\ synths' = [synths EXCEPT ![s] =
                [@ EXCEPT !.pc = "done",
                          !.result = IF ok
                                     THEN SynthResult("ok", Keys(session.last_results),
                                                      Len(session.query_history))
                                     ELSE SynthResult("error", <<>>, 0)]]
          /\ heap' = [heap EXCEPT ![synths[s].session] =
                        SessionAfterSynthesis(@, synths[s].synthesis_type)]
    /\ UNCHANGED <<_persona_sessions, _active_conversations, setups, calls, nextNb,
                   askCount, rec, chats, clientVars>>

(***************************************************************************)
(* chat.py: chat_ask and chat_clear, which share _active_conversations     *)
(* with the strategies                                                     *)
(***************************************************************************)
\* notebook_id arguments of the chat tools: the first notebook of a session
ChatNotebooks == {1}

\* the asks issued so far on notebook nb: by the strategies, as (call, ask)
\* pairs, and by chat_ask, as (0, position in chats) pairs
AskedOn(nb) ==
    UNION {{<<c, i>> : i \in {j \in 1..Len(calls[c].asks) :
                                /\ calls[c].asks[j].nb = nb
                                /\ calls[c].asks[j].status # "pending"}} :
           c \in 1..Len(calls)}
    \cup {<<0, k>> : k \in {j \in 1..Len(chats) :
                                /\ chats[j].tool = "chat_ask"
                                /\ chats[j].notebook_id = nb}}

\* a chat_ask or chat_clear coroutine.  conversation_id is the kwarg of the
\* ask (chat_ask) or the popped entry (chat_clear), 0 for none; returned is
\* result.conversation_id.  before and asked are not program state: they
\* record AskedOn(notebook_id) at the call and at the return of chat_clear,
\* which tells the asks issued before the call, during the clear and after
\* its return from one another
ChatCall(tool, notebook_id, continue_conversation, conversation_id, pc, result) ==
    [tool |-> tool, notebook_id |-> notebook_id,
     continue_conversation |-> continue_conversation,
     conversation_id |-> conversation_id, pc |-> pc, result |-> result,
     returned |-> 0, before |-> {}, asked |-> {}]

\* chat_ask from its call to its await on client.chat.ask
ChatAsk(notebook_id, continue_conversation) ==
    /\ Len(chats) < MaxChats
    /\ chats' = Append(chats,
            ChatCall("chat_ask", notebook_id, continue_conversation,
                     ConversationArg(continue_conversation, notebook_id), "ask", ""))
    /\ UNCHANGED <<heap, _persona_sessions, _active_conversations, setups, calls, nextNb,
                   askCount, synths, rec, clientVars>>

\* the await of chat_ask returns, and the conversation_id is stored, or
\* raises, and the exception leaves the tool
ChatAskReturn(k, out) ==
    /\ chats[k].tool = "chat_ask"
    /\ chats[k].pc = "ask"
    /\ chats' = [chats EXCEPT ![k] =
            [@ EXCEPT !.pc = "done",
                      !.result = IF out.ok THEN "answer" ELSE "raised",
                      !.returned = out.conversation_id]]
    /\ _active_conversations' = Remember(chats[k].notebook_id, out)
    /\ UNCHANGED <<heap, _persona_sessions, setups, calls, nextNb, askCount, synths, rec, clientVars>>

\* PopEntry, for a chat_clear that leaves the registry to the server call
PopEntryKept(registry, notebook_id) == registry

\* _active_conversations.pop(notebook_id)
PopEntry(registry, notebook_id) == [registry EXCEPT ![notebook_id] = 0]

\* chat_clear from its call to its await on client.chat.clear_cache.  A
\* client library without clear_cache raises AttributeError before any
\* suspension (suspends is FALSE) and chat_clear returns in the same run
ChatClear(notebook_id, suspends) ==
    /\ Len(chats) < MaxChats
    /\ IF _active_conversations[notebook_id] = 0
       THEN /\ chats' = Append(chats,
                    [ChatCall("chat_clear", notebook_id, FALSE, 0, "done", "no_conversation")
                        EXCEPT !.before = AskedOn(notebook_id)])
            /\ UNCHANGED _active_conversations
       ELSE /\ _active_conversations' = PopEntry(_active_conversations, notebook_id)
            /\ chats' = Append(chats,
                    IF suspends
                    THEN [ChatCall("chat_clear", notebook_id, FALSE,
                                   _active_conversations[notebook_id], "clear_cache", "")
                            EXCEPT !.before = AskedOn(notebook_id)]
                    ELSE [ChatCall("chat_clear", notebook_id, FALSE,
                                   _active_conversations[notebook_id], "done", "cleared")
                            EXCEPT !.before = AskedOn(notebook_id),
                                   !.asked = AskedOn(notebook_id)])
    /\ UNCHANGED <<heap, _persona_sessions, setups, calls, nextNb, askCount, synths, rec, clientVars>>

\* the await on client.chat.clear_cache returns or raises (the exception is
\* passed over) and chat_clear returns its confirmation
ChatClearReturn(k) ==
    /\ chats[k].tool = "chat_clear"
    /\ chats[k].pc = "clear_cache"
    /\ chats' = [chats EXCEPT ![k] =
            [@ EXCEPT !.pc = "done", !.result = "cleared",
                      !.asked = AskedOn(chats[k].notebook_id)]]
    /\ UNCHANGED <<heap, _persona_sessions, _active_conversations, setups, calls, nextNb,
                   askCount, synths, rec, clientVars>>

(***************************************************************************)
(* client.py: get_client and close_client.  NotebookLMClient is the        *)
(* library's: from_storage, __aenter__ and __aexit__ are awaited and may   *)
(* suspend, succeed or raise.                                              *)
(***************************************************************************)
\* a client object: is_connected is true from the return of __aenter__ to
\* the return of __aexit__
NewClient == [is_connected |-> FALSE]

\* a get_client or close_client coroutine.  target is the object whose
\* __aenter__ or __aexit__ it awaits, result what it returns (a client, 0
\* for None) and raised whether it left with RuntimeError
ClientCall(tool, pc, target, result) ==
    [tool |-> tool, pc |-> pc, target |-> target, result |-> result, raised |-> FALSE]

\* "_client is not None and _client.is_connected"
IsConnected(client) == client # 0 /\ clients[client].is_connected

\* get_client from its call to its await on NotebookLMClient.from_storage,
\* or to its return of the connected client
GetClient ==
    /\ Len(gets) < MaxGets
    /\ gets' = Append(gets,
            IF IsConnected(_client)
            THEN ClientCall("get_client", "done", 0, _client)
            ELSE ClientCall("get_client", "from_storage", 0, 0))
    /\ UNCHANGED <<_client, clients>>
    /\ UNCHANGED <<heap, _persona_sessions, _active_conversations, setups, calls, nextNb,
                   askCount, synths, rec, chats>>

\* the await on from_storage returns a new client, which is assigned to
\* the global and whose __aenter__ is awaited, or raises
FromStorageReturn(g, ok) ==
    /\ gets[g].pc = "from_storage"
    /\ IF ok
       THEN /\ clients' = Append(clients, NewClient)
            /\ _client' = Len(clients) + 1
            /\ gets' = [gets EXCEPT ![g] = [@ EXCEPT !.pc = "aenter",
                                                      !.target = Len(clients) + 1]]
       ELSE /\ gets' = [gets EXCEPT ![g] = [@ EXCEPT !.pc = "done", !.raised = TRUE]]
            /\ UNCHANGED <<_client, clients>>
    /\ UNCHANGED <<heap, _persona_sessions, _active_conversations, setups, calls, nextNb,
                   askCount, synths, rec, chats>>

\* the await on __aenter__ returns, and get_client returns the global as
\* it is now, or raises
AenterReturn(g, ok) ==
    /\ gets[g].pc = "aenter"
    /\ IF ok
       THEN /\ clients' = [clients EXCEPT ![gets[g].target].is_connected = TRUE]
            /\ gets' = [gets EXCEPT ![g] = [@ EXCEPT !.pc = "done", !.result = _client]]
       ELSE /\ gets' = [gets EXCEPT ![g] = [@ EXCEPT !.pc = "done", !.raised = TRUE]]
            /\ UNCHANGED clients
    /\ UNCHANGED _client
    /\ UNCHANGED <<heap, _persona_sessions, _active_conversations, setups, calls, nextNb,
                   askCount, synths, rec, chats>>

\* close_client from its call to its await on __aexit__ of the global
CloseClient ==
    /\ Len(gets) < MaxGets
    /\ gets' = Append(gets,
            IF _client # 0
            THEN ClientCall("close_client", "aexit", _client, 0)
            ELSE ClientCall("close_client", "done", 0, 0))
    /\ UNCHANGED <<_client, clients>>
    /\ UNCHANGED <<heap, _persona_sessions, _active_conversations, setups, calls, nextNb,
                   askCount, synths, rec, chats>>

\* the await on __aexit__ returns or raises (the exception is passed over)
\* and the global is set to None
AexitReturn(g, ok) ==
    /\ gets[g].pc = "aexit"
    /\ clients' = IF ok THEN [clients EXCEPT ![gets[g].target].is_connected = FALSE]
                   ELSE clients
    /\ _client' = 0
    /\ gets' = [gets EXCEPT ![g] = [@ EXCEPT !.pc = "done"]]
    /\ UNCHANGED <<heap, _persona_sessions, _active_conversations, setups, calls, nextNb,
                   askCount, synths, rec, chats>>

ClientNext ==
    \/ GetClient
    \/ \E g \in 1..Len(gets), ok \in BOOLEAN : FromStorageReturn(g, ok)
    \/ \E g \in 1..Len(gets), ok \in BOOLEAN : AenterReturn(g, ok)
    \/ CloseClient
    \/ \E g \in 1..Len(gets), ok \in BOOLEAN : AexitReturn(g, ok)

\* ClientSpec: any number of tool invocations calling get_client, and the
\* server's lifespan calling close_client
ClientSpec == Init /\ [][ClientNext]_vars

(***************************************************************************)
(* persona_registry: classify_domain and recommend_personas.  A string is  *)
(* the sequence of its characters; a character outside ASCII is written as *)
(* its code point ("uBC18").                                               *)
(***************************************************************************)
\* persona_registry.DOMAIN_KEYWORDS, in the order of the dict
DOMAIN_KEYWORDS == <<
    [domain |-> "technology", keywords |-> <<
        <<"A", "I">>, <<"uC778", "uACF5", "uC9C0", "uB2A5">>, <<"uBA38", "uC2E0", "uB7EC",
        "uB2DD">>, <<"uB525", "uB7EC", "uB2DD">>, <<"uBC18", "uB3C4", "uCCB4">>,
        <<"uCE69">>, <<"G", "P", "U">>, <<"T", "P", "U">>, <<"uC18C", "uD504", "uD2B8",
        "uC6E8", "uC5B4">>, <<"uD558", "uB4DC", "uC6E8", "uC5B4">>, <<"uD074", "uB77C",
        "uC6B0", "uB4DC">>, <<"S", "a", "a", "S">>, <<"A", "P", "I">>, <<"uC624", "uD508",
        "uC18C", "uC2A4">>, <<"L", "L", "M">>, <<"uBE14", "uB85D", "uCCB4", "uC778">>,
        <<"uC591", "uC790", "uCEF4", "uD4E8", "uD305">>, <<"uB85C", "uBD07">>, <<"uC790",
        "uC728", "uC8FC", "uD589">>, <<"I", "o", "T">>, <<"5", "G">>, <<"6", "G">>,
        <<"uC0AC", "uC774", "uBC84", "uBCF4", "uC548">>, <<"uB370", "uC774", "uD130",
        "uC13C", "uD130">>, <<"uC5E3", "uC9C0", "uCEF4", "uD4E8", "uD305">>, <<"A", "R">>,
        <<"V", "R">>, <<"uBA54", "uD0C0", "uBC84", "uC2A4">> >>],
    [domain |-> "engineering", keywords |-> <<
        <<"uACF5", "uC815">>, <<"uC124", "uACC4">>, <<"uC81C", "uC870">>, <<"uC544",
        "uD0A4", "uD14D", "uCC98">>, <<"uC2DC", "uC2A4", "uD15C">>, <<"uD504", "uB85C",
        "uD1A0", "uCF5C">>, <<"uC778", "uD504", "uB77C">>, <<"uB098", "uB178", "uBBF8",
        "uD130">>, <<"n", "m">>, <<"E", "U", "V">>, <<"uD30C", "uC6B4", "uB4DC", "uB9AC">>,
        <<"uD328", "uD0A4", "uC9D5">>, <<"uD14C", "uC2A4", "uD2B8">> >>],
    [domain |-> "business", keywords |-> <<
        <<"uC2DC", "uC7A5">>, <<"uB9E4", "uCD9C">>, <<"uC218", "uC775">>, <<"uC804",
        "uB7B5">>, <<"uACBD", "uC7C1">>, <<"uACE0", "uAC1D">>, <<"uB9C8", "uCF00",
        "uD305">>, <<"uBE0C", "uB79C", "uB4DC">>, <<"B", "M">>, <<"uBE44", "uC988", "uB2C8",
        "uC2A4", "uBAA8", "uB378">>, <<"uC0AC", "uC5C5">>, <<"uAE30", "uC5C5">>, <<"uACBD",
        "uC601">>, <<"uC870", "uC9C1">>, <<"uC778", "uC218", "uD569", "uBCD1">>, <<"M", "&",
        "A">> >>],
    [domain |-> "finance", keywords |-> <<
        <<"uD22C", "uC790">>, <<"uC8FC", "uC2DD">>, <<"uD380", "uB4DC">>, <<"V", "C">>,
        <<"I", "P", "O">>, <<"uBC38", "uB958", "uC5D0", "uC774", "uC158">>, <<"P", "E",
        "R">>, <<"P", "B", "R">>, <<"R", "O", "I">>, <<"R", "O", "E">>, <<"uC7AC",
        "uBB34">>, <<"uD68C", "uACC4">>, <<"uAE08", "uB9AC">>, <<"uD658", "uC728">>,
        <<"uC778", "uD50C", "uB808", "uC774", "uC158">> >>],
    [domain |-> "investment", keywords |-> <<
        <<"uD3EC", "uD2B8", "uD3F4", "uB9AC", "uC624">>, <<"uC790", "uC0B0", "uBC30",
        "uBD84">>, <<"uB9AC", "uBC38", "uB7F0", "uC2F1">>, <<"uC218", "uC775", "uB960">>,
        <<"uBC30", "uB2F9">>, <<"E", "T", "F">>, <<"uCC44", "uAD8C">>, <<"uC6D0", "uC790",
        "uC7AC">>, <<"uBD80", "uB3D9", "uC0B0">>, <<"uB300", "uCCB4", "uD22C", "uC790">> >>],
    [domain |-> "startup", keywords |-> <<
        <<"uC2A4", "uD0C0", "uD2B8", "uC5C5">>, <<"uCC3D", "uC5C5">>, <<"P", "M", "F">>,
        <<"G", "T", "M">>, <<"uD53C", "uBC97">>, <<"M", "V", "P">>, <<"uC2DC", "uB9AC",
        "uC988", "A">>, <<"uC720", "uB2C8", "uCF58">>, <<"uC5D1", "uC140", "uB7EC", "uB808",
        "uC774", "uD130">>, <<"uBCA4", "uCC98">>, <<"uB9B0", "uC2A4", "uD0C0", "uD2B8",
        "uC5C5">> >>],
    [domain |-> "academic", keywords |-> <<
        <<"uB17C", "uBB38">>, <<"uC5F0", "uAD6C">>, <<"uD559", "uC220">>, <<"uD559",
        "uD68C">>, <<"uC800", "uB110">>, <<"uD53C", "uC5B4", "uB9AC", "uBDF0">>, <<"uC778",
        "uC6A9">>, <<"uAC00", "uC124">>, <<"uC2E4", "uD5D8">>, <<"uC774", "uB860">>,
        <<"uBAA8", "uB378">>, <<"uD504", "uB808", "uC784", "uC6CC", "uD06C">> >>],
    [domain |-> "science", keywords |-> <<
        <<"uACFC", "uD559">>, <<"uBB3C", "uB9AC">>, <<"uD654", "uD559">>, <<"uC0DD",
        "uBB3C">>, <<"uC218", "uD559">>, <<"uD1B5", "uACC4">>, <<"uC2E4", "uD5D8">>,
        <<"uBC1C", "uACAC">>, <<"uBC95", "uCE59">>, <<"uC6D0", "uB9AC">>, <<"uC99D",
        "uBA85">> >>],
    [domain |-> "research", keywords |-> <<
        <<"uC5F0", "uAD6C", "uAC1C", "uBC1C">>, <<"R", "&", "D">>, <<"uAE30", "uCD08",
        "uC5F0", "uAD6C">>, <<"uC751", "uC6A9", "uC5F0", "uAD6C">>, <<"uC5F0", "uAD6C",
        "uC18C">>, <<"uB7A9">> >>],
    [domain |-> "medical", keywords |-> <<
        <<"uC758", "uB8CC">>, <<"uC784", "uC0C1">>, <<"uCE58", "uB8CC">>, <<"uC9C4",
        "uB2E8">>, <<"uC57D", "uBB3C">>, <<"F", "D", "A">>, <<"uC2E0", "uC57D">>, <<"uD658",
        "uC790">>, <<"uC9C8", "uBCD1">>, <<"uBC14", "uC774", "uC624">>, <<"uAC8C",
        "uB188">>, <<"uC720", "uC804", "uC790">>, <<"uBC31", "uC2E0">> >>],
    [domain |-> "healthcare", keywords |-> <<
        <<"uAC74", "uAC15">>, <<"uD5EC", "uC2A4", "uCF00", "uC5B4">>, <<"uB514", "uC9C0",
        "uD138", "uD5EC", "uC2A4">>, <<"uC6D0", "uACA9", "uC758", "uB8CC">>, <<"uC758",
        "uB8CC", "uAE30", "uAE30">> >>],
    [domain |-> "pharmaceutical", keywords |-> <<
        <<"uC81C", "uC57D">>, <<"uC784", "uC0C1", "uC2DC", "uD5D8">>, <<"C", "R", "O">>,
        <<"C", "M", "O">>, <<"G", "M", "P">>, <<"uC2E0", "uC57D", "uAC1C", "uBC1C">> >>],
    [domain |-> "policy", keywords |-> <<
        <<"uC815", "uCC45">>, <<"uADDC", "uC81C">>, <<"uBC95", "uB960">>, <<"uBC95",
        "uC548">>, <<"uC785", "uBC95">>, <<"uD589", "uC815">>, <<"uC815", "uBD80">>,
        <<"uACF5", "uACF5">>, <<"uAC70", "uBC84", "uB10C", "uC2A4">>, <<"uCEF4", "uD50C",
        "uB77C", "uC774", "uC5B8", "uC2A4">> >>],
    [domain |-> "legal", keywords |-> <<
        <<"uBC95">>, <<"uACC4", "uC57D">>, <<"uC18C", "uC1A1">>, <<"uD2B9", "uD5C8">>,
        <<"uC9C0", "uC801", "uC7AC", "uC0B0">>, <<"I", "P">>, <<"uB77C", "uC774", "uC120",
        "uC2A4">> >>],
    [domain |-> "regulation", keywords |-> <<
        <<"uC778", "uD5C8", "uAC00">>, <<"uC778", "uC99D">>, <<"uD45C", "uC900">>,
        <<"uAC00", "uC774", "uB4DC", "uB77C", "uC778">>, <<"uAC10", "uB3C5">>, <<"uAC10",
        "uC0AC">> >>],
    [domain |-> "education", keywords |-> <<
        <<"uAD50", "uC721">>, <<"uD559", "uC2B5">>, <<"uCEE4", "uB9AC", "uD058", "uB7FC">>,
        <<"E", "d", "T", "e", "c", "h">>, <<"uC628", "uB77C", "uC778", "uAD50", "uC721">>,
        <<"M", "O", "O", "C">> >>],
    [domain |-> "social", keywords |-> <<
        <<"uC0AC", "uD68C">>, <<"uBB38", "uD654">>, <<"uC778", "uAD6C">>, <<"uB178",
        "uB3D9">>, <<"uACE0", "uC6A9">>, <<"uBD88", "uD3C9", "uB4F1">>, <<"uD658",
        "uACBD">>, <<"E", "S", "G">> >>],
    [domain |-> "geopolitics", keywords |-> <<
        <<"uC9C0", "uC815", "uD559">>, <<"uC678", "uAD50">>, <<"uC548", "uBCF4">>,
        <<"uBB34", "uC5ED", "uC804", "uC7C1">>, <<"uC81C", "uC7AC">>, <<"uB3D9", "uB9F9">>,
        <<"uD328", "uAD8C">>, <<"uACF5", "uAE09", "uB9DD">>, <<"uB514", "uCEE4", "uD50C",
        "uB9C1">>, <<"uB9AC", "uC1FC", "uC5B4", "uB9C1">>, <<"uD504", "uB80C", "uB4DC",
        "uC1FC", "uC5B4", "uB9C1">> >>],
    [domain |-> "management", keywords |-> <<
        <<"uB9AC", "uB354", "uC2ED">>, <<"uC870", "uC9C1", "uBB38", "uD654">>, <<"H", "R">>,
        <<"uC778", "uC0AC">>, <<"uC131", "uACFC", "uAD00", "uB9AC">>, <<"O", "K", "R">>,
        <<"K", "P", "I">> >>],
    [domain |-> "software", keywords |-> <<
        <<"uD504", "uB85C", "uADF8", "uB798", "uBC0D">>, <<"uAC1C", "uBC1C">>, <<"uCF54",
        "uB529">>, <<"D", "e", "v", "O", "p", "s">>, <<"C", "I", "/", "C", "D">>, <<"uB9C8",
        "uC774", "uD06C", "uB85C", "uC11C", "uBE44", "uC2A4">>, <<"uCEE8", "uD14C", "uC774",
        "uB108">>, <<"uCFE0", "uBC84", "uB124", "uD2F0", "uC2A4">>, <<"uD504", "uB860",
        "uD2B8", "uC5D4", "uB4DC">>, <<"uBC31", "uC5D4", "uB4DC">> >>],
    [domain |-> "hardware", keywords |-> <<
        <<"uD558", "uB4DC", "uC6E8", "uC5B4">>, <<"A", "S", "I", "C">>, <<"F", "P", "G",
        "A">>, <<"P", "C", "B">>, <<"uC784", "uBCA0", "uB514", "uB4DC">>, <<"uC13C",
        "uC11C">> >>],
    [domain |-> "government", keywords |-> <<
        <<"uC815", "uBD80">>, <<"uACF5", "uACF5", "uAE30", "uAD00">>, <<"uAD6D", "uBC29">>,
        <<"uC870", "uB2EC">> >>] >>

UpperCase == <<"A", "B", "C", "D", "E", "F", "G", "H", "I", "J", "K", "L", "M", "N", "O", "P", "Q", "R", "S", "T", "U", "V", "W", "X", "Y", "Z">>

LowerCase == <<"a", "b", "c", "d", "e", "f", "g", "h", "i", "j", "k", "l", "m", "n", "o", "p", "q", "r", "s", "t", "u", "v", "w", "x", "y", "z">>

\* str.lower() of one character (the characters of the model outside A-Z
\* have no lower case of their own)
Lower(ch) ==
    IF \E i \in 1..Len(UpperCase) : UpperCase[i] = ch
    THEN LowerCase[CHOOSE i \in 1..Len(UpperCase) : UpperCase[i] = ch]
    ELSE ch

\* s.lower()
ToLower(s) == [i \in 1..Len(s) |-> Lower(s[i])]

\* kw occurs in s at position p
OccursAt(kw, s, p) ==
    /\ p >= 1
    /\ p + Len(kw) - 1 <= Len(s)
    /\ \A i \in 1..Len(kw) : s[p + i - 1] = kw[i]

\* "kw in s" for strings
In(kw, s) == \E p \in 1..(Len(s) + 1) : OccursAt(kw, s, p)

\* the characters of the model that the regex class \w does not match
NonWordChars == {" ", "&", "/", "-", ".", ",", "?"}

IsWordChar(ch) == ch \notin NonWordChars

\* the regex assertion \b between s[p-1] and s[p]
WordBoundary(s, p) ==
    LET before == p > 1 /\ IsWordChar(s[p - 1])
        after == p <= Len(s) /\ IsWordChar(s[p])
    IN before # after

\* re.search(rf"\b{re.escape(kw)}\b", topic, re.IGNORECASE)
SearchWord(kw, topic) ==
    \E p \in 1..(Len(topic) + 1) :
        /\ OccursAt(ToLower(kw), ToLower(topic), p)
        /\ WordBoundary(topic, p)
        /\ WordBoundary(topic, p + Len(kw))

\* KeywordMatches, for a match of whole words only
KeywordMatchesWord(kw, topic) == SearchWord(kw, topic)

\* the two tests of classify_domain under which a keyword adds to count
KeywordMatches(kw, topic) ==
    \/ In(ToLower(kw), ToLower(topic))
    \/ Len(kw) <= 3 /\ SearchWord(kw, topic)

\* count of a domain after the loop over its keywords
MatchCount(keywords, topic) ==
    Cardinality({i \in 1..Len(keywords) : KeywordMatches(keywords[i], topic)})

\* scores: the domains with count > 0, in the order of DOMAIN_KEYWORDS
Scores(topic) ==
    LET counted == [i \in 1..Len(DOMAIN_KEYWORDS) |->
                        [k |-> DOMAIN_KEYWORDS[i].domain,
                         v |-> MatchCount(DOMAIN_KEYWORDS[i].keywords, topic)]]
    IN SelectSeq(counted, LAMBDA e : e.v > 0)

RECURSIVE SortedDescending(_)
\* sorted(d, key=lambda k: d[k], reverse=True): the keys by value, largest
\* first, keys of equal value in their order in d (the sort is stable)
SortedDescending(d) ==
    IF d = <<>> THEN <<>>
    ELSE LET i == CHOOSE i \in 1..Len(d) :
                    /\ \A j \in 1..Len(d) : d[j].v <= d[i].v
                    /\ \A j \in 1..(i - 1) : d[j].v < d[i].v
         IN <<d[i].k>> \o SortedDescending(SubSeq(d, 1, i - 1) \o SubSeq(d, i + 1, Len(d)))

\* the "safe defaults" of classify_domain
DefaultDomains == <<"technology", "business">>

\* classify_domain, returning the sorted list also when it is empty
classify_domain_no_default(topic) == SortedDescending(Scores(topic))

\* classify_domain(topic)
classify_domain(topic) ==
    LET sorted_domains == SortedDescending(Scores(topic))
    IN IF sorted_domains # <<>> THEN sorted_domains ELSE DefaultDomains

\* the topics recommend_personas and classify_domain are called with
RecTopics == {
    <<"A", "I", " ", "uBC18", "uB3C4", "uCCB4", " ", "uC2DC", "uC7A5", " ", "uC804", "uB9DD">>,
    <<>>,
    <<"h", "e", "l", "l", "o", " ", "w", "o", "r", "l", "d">>,
    <<"e", "m", "a", "i", "l">>,
    <<"uBC95", "uB960">>,
    <<"uD558", "uB4DC", "uC6E8", "uC5B4", " ", "uC815", "uBD80">>,
    <<"uC2E0", "uC57D", "uAC1C", "uBC1C", " ", "uC784", "uC0C1", "uC2DC", "uD5D8">>,
    <<"uC2A4", "uD0C0", "uD2B8", "uC5C5", " ", "uD22C", "uC790", " ", "V", "C">>,
    <<"uAD50", "uC721">>,
    <<"E", "S", "G", " ", "uADDC", "uC81C", " ", "uC815", "uCC45">>,
    <<"M", "&", "A", " ", "uC804", "uB7B5">>,
    <<"uB17C", "uBB38", " ", "uC778", "uC6A9">>,
    <<"r", "a", "p", "i", "d">>,
    <<"uC758", "uB8CC">>,
    <<"A", "I", " ", "uC758", "uB8CC">>,
    <<"uCF54", "uB529", " ", "uB9AC", "uB354", "uC2ED">>,
    <<"uCC3D", "uC5C5">>,
    <<"uACFC", "uD559">> }

\* max_count arguments
MaxCounts == 1..MaxCountArg

Range(s) == {s[i] : i \in 1..Len(s)}

\* domains.index(d) + 1 for a d of domains
Rank(domains, d) == CHOOSE i \in 1..Len(domains) : domains[i] = d /\ \A j \in 1..(i - 1) : domains[j] # d

\* the scores are kept as multiples of 1/Scale, which is exact for the
\* ranks 1..10; the rounding of the float sum is not modelled
Scale == 2520

RECURSIVE Weight(_, _)
\* sum(1.0 / (domains.index(d) + 1) for d in overlap if d in domains)
Weight(overlap, domains) ==
    IF overlap = {} THEN 0
    ELSE LET d == CHOOSE d \in overlap : TRUE
         IN Scale \div Rank(domains, d) + Weight(overlap \ {d}, domains)

\* set(persona.domains) & domain_set
Overlap(persona, domains) == Range(persona.domains) \cap Range(domains)

\* IsScored, for a scoring that leaves the universal personas out
IsScoredOverlapOnly(persona, domains) == Overlap(persona, domains) # {}

\* the personas recommend_personas scores: the universal ones and those
\* that share a domain with the topic
IsScored(persona, domains) == "*" \in Range(persona.domains) \/ Overlap(persona, domains) # {}

\* the score of a scored persona
Score(persona, domains) ==
    IF "*" \in Range(persona.domains) THEN Scale
    ELSE 10 * Scale + Weight(Overlap(persona, domains), domains)

\* scored after scored.sort(key=lambda x: x[0], reverse=True): the keys of
\* the scored personas, best first
Scored(domains) ==
    LET candidates == SelectSeq(PERSONA_POOL, LAMBDA persona : IsScored(persona, domains))
    IN SortedDescending([i \in 1..Len(candidates) |->
            [k |-> candidates[i].key, v |-> Score(candidates[i], domains)]])

\* MaxPerTeam, for a cap of half of max_count plus one
MaxPerTeamHalfPlusOne(max_count) == max_count \div 2 + 1

\* max_per_team = max(1, (max_count + 1) // 2)
MaxPerTeam(max_count) == IF (max_count + 1) \div 2 >= 1 THEN (max_count + 1) \div 2 ELSE 1

\* sum(1 for p in selected if p.red_blue == team)
TeamCount(selected, team) ==
    Cardinality({i \in 1..Len(selected) : get_persona(selected[i]).red_blue = team})

\* the last index of selected that holds a neutral persona, 0 if none does
LastNeutral(selected) ==
    LET neutral == {i \in 1..Len(selected) : get_persona(selected[i]).red_blue = "neutral"}
    IN IF neutral = {} THEN 0 ELSE CHOOSE i \in neutral : \A j \in neutral : j <= i

\* EnsureRed, without the tests that no critical persona is selected yet
EnsureRedUnchecked(selected, max_count) ==
    IF Len(selected) >= max_count
    THEN IF LastNeutral(selected) # 0
         THEN [selected EXCEPT ![LastNeutral(selected)] = "devil_advocate"]
         ELSE [selected EXCEPT ![Len(selected)] = "devil_advocate"]
    ELSE selected

\* EnsureRed, replacing the last entry whatever its stance
EnsureRedLastEntry(selected, max_count) ==
    IF /\ TeamCount(selected, "red") = 0
       /\ Len(selected) >= max_count
       /\ "devil_advocate" \notin Range(selected)
    THEN [selected EXCEPT ![Len(selected)] = "devil_advocate"]
    ELSE selected

\* "Ensure at least one critical/red persona for balance"
EnsureRed(selected, max_count) ==
    IF /\ TeamCount(selected, "red") = 0
       /\ Len(selected) >= max_count
       /\ "devil_advocate" \notin Range(selected)
    THEN IF LastNeutral(selected) # 0
         THEN [selected EXCEPT ![LastNeutral(selected)] = "devil_advocate"]
         ELSE [selected EXCEPT ![Len(selected)] = "devil_advocate"]
    ELSE selected

\* BlueCandidates, listing the pool from its end: the domain-specific
\* personas come before the universal ones
BlueCandidatesReversed(selected) ==
    LET blue == SelectSeq(PERSONA_POOL,
                          LAMBDA p : p.red_blue = "blue" /\ p.key \notin Range(selected))
    IN [i \in 1..Len(blue) |-> blue[Len(blue) + 1 - i]]

\* blue_candidates: the blue personas of the pool that are not selected
BlueCandidates(selected) ==
    SelectSeq(PERSONA_POOL,
              LAMBDA p : p.red_blue = "blue" /\ p.key \notin Range(selected))

\* EnsureBlue, replacing the last entry when no neutral persona is selected
EnsureBlueLastEntry(selected, max_count) ==
    LET blue_candidates == BlueCandidates(selected)
    IN IF /\ TeamCount(selected, "blue") = 0
          /\ Len(selected) >= max_count
          /\ blue_candidates # <<>>
       THEN IF LastNeutral(selected) # 0
            THEN [selected EXCEPT ![LastNeutral(selected)] = blue_candidates[1].key]
            ELSE [selected EXCEPT ![Len(selected)] = blue_candidates[1].key]
       ELSE selected

\* "Ensure at least one supportive/blue persona for balance"
EnsureBlue(selected, max_count) ==
    LET blue_candidates == BlueCandidates(selected)
    IN IF /\ TeamCount(selected, "blue") = 0
          /\ Len(selected) >= max_count
          /\ blue_candidates # <<>>
          /\ LastNeutral(selected) # 0
       THEN [selected EXCEPT ![LastNeutral(selected)] = blue_candidates[1].key]
       ELSE selected

\* the frame of a recommend_personas call: its arguments, its locals and
\* where it is.  skipped lists the candidates the team balance check refused
Frame(pc, topic, max_count) ==
    [pc |-> pc, topic |-> topic, max_count |-> max_count, scores |-> <<>>, domains |-> <<>>,
     scored |-> <<>>, i |-> 0, selected |-> <<>>, red_count |-> 0, blue_count |-> 0,
     neutral_count |-> 0, skipped |-> <<>>, result |-> <<>>]

\* recommend_personas is called: the topic is classified and the personas
\* are scored and sorted
RecStart ==
    /\ rec.pc = "call"
    /\ LET domains == classify_domain(rec.topic)
       IN rec' = [rec EXCEPT !.pc = "greedy", !.scores = Scores(rec.topic),
                             !.domains = domains,
                             !.scored = Scored(domains), !.i = 1]
    /\ UNCHANGED <<heap, _persona_sessions, _active_conversations, setups, calls, nextNb,
                   askCount, synths, chats, clientVars>>

\* one iteration of "for _score, persona in scored", or the end of the loop
RecGreedy ==
    /\ rec.pc = "greedy"
    /\ IF rec.i > Len(rec.scored) \/ Len(rec.selected) >= rec.max_count
       THEN rec' = [rec EXCEPT !.pc = "ensure_red"]
       ELSE LET key == rec.scored[rec.i]
                team == get_persona(key).red_blue
            IN IF key \in Range(rec.selected)
               THEN rec' = [rec EXCEPT !.i = @ + 1]
               ELSE IF \/ team = "red" /\ rec.red_count >= MaxPerTeam(rec.max_count)
                       \/ team = "blue" /\ rec.blue_count >= MaxPerTeam(rec.max_count)
               THEN rec' = [rec EXCEPT !.i = @ + 1, !.skipped = Append(@, key)]
               ELSE rec' = [rec EXCEPT
                        !.i = @ + 1,
                        !.selected = Append(@, key),
                        !.red_count = IF team = "red" THEN @ + 1 ELSE @,
                        !.blue_count = IF team = "blue" THEN @ + 1 ELSE @,
                        !.neutral_count = IF team \notin {"red", "blue"} THEN @ + 1 ELSE @]
    /\ UNCHANGED <<heap, _persona_sessions, _active_conversations, setups, calls, nextNb,
                   askCount, synths, chats, clientVars>>

\* the recount and the forced critical replacement
RecEnsureRed ==
    /\ rec.pc = "ensure_red"
    /\ LET selected == EnsureRed(rec.selected, rec.max_count)
       IN rec' = [rec EXCEPT !.pc = "ensure_blue", !.selected = selected,
                             !.red_count = TeamCount(selected, "red"),
                             !.blue_count = TeamCount(rec.selected, "blue")]
    /\ UNCHANGED <<heap, _persona_sessions, _active_conversations, setups, calls, nextNb,
                   askCount, synths, chats, clientVars>>

\* the forced supportive replacement and the result, selected[:max_count]
RecEnsureBlue ==
    /\ rec.pc = "ensure_blue"
    /\ LET selected == EnsureBlue(rec.selected, rec.max_count)
       IN rec' = [rec EXCEPT !.pc = "done", !.selected = selected,
                             !.blue_count = TeamCount(rec.selected, "blue"),
                             !.result = SubSeq(selected, 1, Min(Len(selected), rec.max_count))]
    /\ UNCHANGED <<heap, _persona_sessions, _active_conversations, setups, calls, nextNb,
                   askCount, synths, chats, clientVars>>

(***************************************************************************)
(* RecSpec: one call of recommend_personas, for every topic of RecTopics   *)
(* and every max_count of MaxCounts.                                       *)
(***************************************************************************)
RecInit ==
    /\ heap = <<>>
    /\ _persona_sessions = [sid \in SessionIds |-> 0]
    /\ _active_conversations = [nb \in NbIds |-> 0]
    /\ setups = <<>>
    /\ calls = <<>>
    /\ nextNb = 0
    /\ askCount = 0
    /\ synths = <<>>
    /\ chats = <<>>
    /\ _client = 0
    /\ clients = <<>>
    /\ gets = <<>>
    /\ \E topic \in RecTopics, max_count \in MaxCounts : rec = Frame("call", topic, max_count)

RecNext ==
    \/ RecStart
    \/ RecGreedy
    \/ RecEnsureRed
    \/ RecEnsureBlue

RecSpec == RecInit /\ [][RecNext]_vars

(***************************************************************************)
(* Spec: setup and the three query strategies, any number of calls in      *)
(* flight at once, every ask free to fail.  Conversation continuity is not *)
(* exercised here: continue_conversation is False and the backend returns  *)
(* no conversation_id.                                                     *)
(***************************************************************************)
Next ==
    \/ \E topic \in Topics, keys \in SetupKeyLists, sid \in SessionIds :
            SetupStart(topic, keys, sid)
    \/ \E s \in 1..Len(setups), ok \in BOOLEAN : SetupCreate(s, ok)
    \/ \E s \in 1..Len(setups) : SetupSave(s)
    \/ \E sid \in SessionIds, q \in Questions, st \in Strategies, keys \in QueryKeyArgs :
            QueryStart(sid, q, st, keys, FALSE)
    \/ \E c \in 1..Len(calls) : \E i \in 1..Len(calls[c].asks) : AskIssue(c, i)
    \/ \E c \in 1..Len(calls) : \E i \in 1..Len(calls[c].asks), out \in PlainOutcomes :
            AskComplete(c, i, out)
    \/ \E c \in 1..Len(calls) : QueryFinish(c)
    \/ \E c \in 1..Len(calls), out \in PlainOutcomes : CascadeStep(c, out)

Spec == Init /\ [][Next]_vars

(***************************************************************************)
(* SynthSpec: persona_synthesize interleaved with setup and the queries of *)
(* a session of two personas.                                              *)
(***************************************************************************)
SynthSetupKeyLists == {<<"futurist", "synthesizer">>}

\* persona_keys of the queries: all personas, one of them, none of them
SynthQueryKeyArgs == {None, KeyList(<<"synthesizer">>), KeyList(<<"risk_assessor">>)}

SynthNext ==
    \/ \E topic \in Topics, keys \in SynthSetupKeyLists, sid \in SessionIds :
            SetupStart(topic, keys, sid)
    \/ \E s \in 1..Len(setups), ok \in BOOLEAN : SetupCreate(s, ok)
    \/ \E s \in 1..Len(setups) : SetupSave(s)
    \/ \E sid \in SessionIds, q \in Questions, st \in Strategies, keys \in SynthQueryKeyArgs :
            QueryStart(sid, q, st, keys, FALSE)
    \/ \E c \in 1..Len(calls) : \E i \in 1..Len(calls[c].asks) : AskIssue(c, i)
    \/ \E c \in 1..Len(calls) : \E i \in 1..Len(calls[c].asks), out \in PlainOutcomes :
            AskComplete(c, i, out)
    \/ \E c \in 1..Len(calls) : QueryFinish(c)
    \/ \E c \in 1..Len(calls), out \in PlainOutcomes : CascadeStep(c, out)
    \/ \E sid \in SessionIds, type \in SynthesisTypes : SynthStart(sid, type)
    \/ \E s \in 1..Len(synths) : SynthAddText(s)
    \/ \E s \in 1..Len(synths), ok \in BOOLEAN : SynthAsk(s, ok)

SynthSpec == Init /\ [][SynthNext]_vars

(***************************************************************************)
(* ConvSpec: conversation continuity.  The queries of a session of two     *)
(* personas, with continue_conversation set or not, against a backend that *)
(* may return a conversation_id with an answer.                            *)
(***************************************************************************)
ConvSetupKeyLists == {<<"futurist", "synthesizer">>}

ConvQueryKeyArgs == {None}

ConvNext ==
    \/ \E topic \in Topics, keys \in ConvSetupKeyLists, sid \in SessionIds :
            SetupStart(topic, keys, sid)
    \/ \E s \in 1..Len(setups), ok \in BOOLEAN : SetupCreate(s, ok)
    \/ \E s \in 1..Len(setups) : SetupSave(s)
    \/ \E sid \in SessionIds, q \in Questions, st \in Strategies, keys \in ConvQueryKeyArgs,
          cont \in BOOLEAN :
            QueryStart(sid, q, st, keys, cont)
    \/ \E c \in 1..Len(calls) : \E i \in 1..Len(calls[c].asks) : AskIssue(c, i)
    \/ \E c \in 1..Len(calls) : \E i \in 1..Len(calls[c].asks), out \in Outcomes :
            AskComplete(c, i, out)
    \/ \E c \in 1..Len(calls) : QueryFinish(c)
    \/ \E c \in 1..Len(calls), out \in Outcomes : CascadeStep(c, out)

ConvSpec == Init /\ [][ConvNext]_vars

(***************************************************************************)
(* ChatSpec: chat_ask and chat_clear on the notebook of a session of one   *)
(* persona, interleaved with one query of that session.                    *)
(***************************************************************************)
ChatSetupKeyLists == {<<"futurist">>}

ChatSessionIds == {"ps-1"}

ChatNext ==
    \/ \E topic \in Topics, keys \in ChatSetupKeyLists, sid \in ChatSessionIds :
            SetupStart(topic, keys, sid)
    \/ \E s \in 1..Len(setups), ok \in BOOLEAN : SetupCreate(s, ok)
    \/ \E s \in 1..Len(setups) : SetupSave(s)
    \/ \E sid \in ChatSessionIds, q \in Questions, st \in Strategies, cont \in BOOLEAN :
            calls = <<>> /\ QueryStart(sid, q, st, None, cont)
    \/ \E c \in 1..Len(calls) : \E i \in 1..Len(calls[c].asks) : AskIssue(c, i)
    \/ \E c \in 1..Len(calls) : \E i \in 1..Len(calls[c].asks), out \in Outcomes :
            AskComplete(c, i, out)
    \/ \E c \in 1..Len(calls) : QueryFinish(c)
    \/ \E c \in 1..Len(calls), out \in Outcomes : CascadeStep(c, out)
    \/ \E nb \in ChatNotebooks, cont \in BOOLEAN : ChatAsk(nb, cont)
    \/ \E k \in 1..Len(chats), out \in Outcomes : ChatAskReturn(k, out)
    \/ \E nb \in ChatNotebooks, suspends \in BOOLEAN : ChatClear(nb, suspends)
    \/ \E k \in 1..Len(chats) : ChatClearReturn(k)

ChatSpec == Init /\ [][ChatNext]_vars

(***************************************************************************)
(* StoreSpec: the session store under several persona_setup calls, each of *)
(* one persona, with the queries of their sessions.  _generate_session_id  *)
(* returns "ps-" and eight hexadecimal digits of a random UUID: two calls  *)
(* may return the same id, here one of SessionIds.                         *)
(***************************************************************************)
StoreSetupKeyLists == {<<"futurist">>}

StoreNext ==
    \/ \E topic \in Topics, keys \in StoreSetupKeyLists, sid \in SessionIds :
            SetupStartWithin(MaxStoreSetups, topic, keys, sid)
    \/ \E s \in 1..Len(setups), ok \in BOOLEAN : SetupCreate(s, ok)
    \/ \E s \in 1..Len(setups) : SetupSave(s)
    \/ \E sid \in SessionIds, q \in Questions, st \in Strategies :
            QueryStart(sid, q, st, None, FALSE)
    \/ \E c \in 1..Len(calls) : \E i \in 1..Len(calls[c].asks) : AskIssue(c, i)
    \/ \E c \in 1..Len(calls) : \E i \in 1..Len(calls[c].asks), out \in PlainOutcomes :
            AskComplete(c, i, out)
    \/ \E c \in 1..Len(calls) : QueryFinish(c)
    \/ \E c \in 1..Len(calls), out \in PlainOutcomes : CascadeStep(c, out)

StoreSpec == Init /\ [][StoreNext]_vars

(***************************************************************************)
(* LiveSpec: the queries of a session of two personas, under the           *)
(* scheduling of the event loop and a backend that answers.  The loop runs *)
(* every task that is ready: a scheduled _ask_one starts, and a strategy   *)
(* whose gather is complete resumes.  The backend lets no ask wait for     *)
(* ever: the await of every ask in flight returns or raises.               *)
(***************************************************************************)
LiveSetupKeyLists == {<<"futurist", "synthesizer">>}

LiveSessionIds == {"ps-1"}

LiveNext ==
    \/ \E topic \in Topics, keys \in LiveSetupKeyLists, sid \in LiveSessionIds :
            SetupStart(topic, keys, sid)
    \/ \E s \in 1..Len(setups), ok \in BOOLEAN : SetupCreate(s, ok)
    \/ \E s \in 1..Len(setups) : SetupSave(s)
    \/ \E sid \in LiveSessionIds, q \in Questions, st \in Strategies :
            QueryStart(sid, q, st, None, FALSE)
    \/ \E c \in 1..Len(calls) : \E i \in 1..Len(calls[c].asks) : AskIssue(c, i)
    \/ \E c \in 1..Len(calls) : \E i \in 1..Len(calls[c].asks), out \in PlainOutcomes :
            AskComplete(c, i, out)
    \/ \E c \in 1..Len(calls) : QueryFinish(c)
    \/ \E c \in 1..Len(calls), out \in PlainOutcomes : CascadeStep(c, out)

LiveSpec ==
    /\ Init /\ [][LiveNext]_vars
    /\ WF_vars(\E c \in 1..Len(calls) : \E i \in 1..Len(calls[c].asks) : AskIssue(c, i))
    /\ WF_vars(\E c \in 1..Len(calls) : \E i \in 1..Len(calls[c].asks), out \in PlainOutcomes :
                    AskComplete(c, i, out))
    /\ WF_vars(\E c \in 1..Len(calls) : QueryFinish(c))
    /\ WF_vars(\E c \in 1..Len(calls), out \in PlainOutcomes : CascadeStep(c, out))

(***************************************************************************)
(* Properties                                                              *)
(***************************************************************************)
CallIds == 1..Len(calls)

SessionOf(c) == heap[calls[c].session]

Completed(ask) == ask.status \in {"ok", "failed"}

Failed(asks) == {i \in 1..Len(asks) : asks[i].status = "failed"}

\* the asks of call c are one per targeted persona, in the targeted order,
\* each on the notebook the session binds that persona to
OneAskPerTarget(c) ==
    LET call == calls[c]
        active == call.active_personas
    IN /\ Len(call.asks) = Len(active)
       /\ \A i \in 1..Len(active) :
            /\ call.asks[i].key = active[i].k
            /\ call.asks[i].nb = Get(SessionOf(c).notebooks, active[i].k)
       /\ \A i, j \in 1..Len(active) : i # j => active[i].k # active[j].k

\* C1 as a state predicate: an independent call has one ask per targeted
\* persona, on that persona's notebook, carrying the question itself; once
\* it has returned, its result has one entry per targeted persona, an error
\* marker where the ask failed and the backend's answer where it did not
C1_State ==
    \A c \in CallIds : calls[c].strategy = "independent" =>
        LET call == calls[c]
            N == Len(call.active_personas)
        IN /\ OneAskPerTarget(c)
           /\ \A i \in 1..N : call.asks[i].prompt = QuestionText(call.question)
           /\ call.pc = "done" =>
                /\ Len(call.result.entries) = N
                /\ \A i \in 1..N :
                    LET e == call.result.entries[i]
                    IN /\ e.k = call.active_personas[i].k
                       /\ Completed(call.asks[i])
                       /\ call.asks[i].status = "failed" => IsErrorMarker(e.v)
                       /\ call.asks[i].status = "ok" =>
                            /\ e.v.kind = "answer"
                            /\ e.v.call = c
                            /\ e.v.key = e.k

\* C1 as a step: a step changes at most one ask of an independent call, a
\* completed ask never changes again, and a step that completes one ask
\* leaves what the other asks carry (notebook, prompt) as it was
C1_Step ==
    \A c \in CallIds : calls[c].strategy = "independent" =>
        LET old == calls[c].asks
            new == calls'[c].asks
        IN /\ Len(new) = Len(old)
           /\ Cardinality({i \in 1..Len(old) : new[i] # old[i]}) <= 1
           /\ \A i \in 1..Len(old) :
                /\ Completed(old[i]) => new[i] = old[i]
                /\ new[i].key = old[i].key /\ new[i].nb = old[i].nb
                /\ new[i].prompt = old[i].prompt

\* C1: In the independent strategy with N targeted personas exactly one ask
\* is issued per targeted persona, against that persona's own backend context
\* and with the question unmodified; for any set F of failing asks the result
\* holds exactly N entries, an error marker for every persona in F and the
\* backend's answer for each other persona; a failing ask never cancels or
\* changes another persona's ask or answer.
C1_IndependentPartialFailure == [][C1_State' /\ C1_Step]_vars

\* an independent call over at least three personas has returned with
\* exactly one failed ask
C1_Witness ==
    \E c \in CallIds :
        /\ calls[c].strategy = "independent"
        /\ calls[c].pc = "done"
        /\ Len(calls[c].asks) >= 3
        /\ Cardinality(Failed(calls[c].asks)) = 1
        /\ Len(calls[c].result.entries) = Len(calls[c].asks)

GatherCall(c) == calls[c].strategy \in {"independent", "red_blue"}

\* C2: An independent or red_blue query does not return, and does not write
\* the session's latest-answer mapping, until every ask it dispatched has
\* completed by success or by failure; in red_blue the barrier covers the
\* asks of both teams.  As a step: while some ask of such a call is not
\* completed, a step neither makes the call return nor changes the
\* latest-answer mapping of its session, unless another call on that session
\* returns in that step; and a returned call has every ask completed.
C2_Step ==
    \A c \in CallIds : GatherCall(c) =>
        LET call == calls[c]
            o == call.session
        IN /\ (call.pc # "done" /\ ~(\A i \in 1..Len(call.asks) : Completed(call.asks[i]))) =>
                /\ calls'[c].pc # "done"
                /\ calls'[c].result = NoResult
                /\ \/ heap'[o].last_results = heap[o].last_results
                   \/ \E d \in CallIds \ {c} :
                        /\ calls[d].session = o
                        /\ calls[d].pc # "done" /\ calls'[d].pc = "done"
           /\ calls'[c].pc = "done" =>
                /\ \A i \in 1..Len(calls'[c].asks) : Completed(calls'[c].asks[i])
                /\ {calls'[c].asks[i].key : i \in 1..Len(calls'[c].asks)}
                        = KeySet(call.active_personas)

C2_FullBarrier == [][C2_Step]_vars

\* a red_blue call is waiting with an ask of each team in flight while
\* another of its asks has already failed
C2_Witness ==
    \E c \in CallIds :
        /\ calls[c].strategy = "red_blue"
        /\ calls[c].pc = "gather"
        /\ \E i, j, k \in 1..Len(calls[c].asks) :
            /\ calls[c].asks[i].team = "blue" /\ calls[c].asks[i].status = "inflight"
            /\ calls[c].asks[j].team = "red" /\ calls[c].asks[j].status = "inflight"
            /\ calls[c].asks[k].status = "failed"

\* C3: In the cascading strategy the targeted personas are asked strictly
\* one at a time in the order they were supplied: the ask of stage n+1 is
\* not issued until the ask of stage n has completed, so at most one ask of
\* a cascading query is in flight at any time.
C3_CascadeSequential ==
    \A c \in CallIds : calls[c].strategy = "cascading" =>
        LET call == calls[c]
            n == Len(call.asks)
        IN /\ n <= Len(call.active_personas)
           /\ \A i \in 1..n :
                /\ call.asks[i].key = call.active_personas[i].k
                /\ call.asks[i].nb = call.active_personas[i].v
                /\ call.asks[i].status # "pending"
                /\ i < n => Completed(call.asks[i])
           /\ Cardinality({i \in 1..n : call.asks[i].status = "inflight"}) <= 1
           /\ call.pc = "done" => n = Len(call.active_personas) /\ Completed(call.asks[n])

\* a cascade has its third stage in flight after a failed first stage
C3_Witness ==
    \E c \in CallIds :
        /\ calls[c].strategy = "cascading"
        /\ Len(calls[c].asks) = 3
        /\ calls[c].asks[3].status = "inflight"
        /\ calls[c].asks[1].status = "failed"
        /\ calls[c].asks[2].status = "ok"

\* t is s[:n] for the text s
IsPrefixOf(t, s, n) ==
    \/ s.len <= n /\ t = s
    \/ s.len > n /\ t = [kind |-> "slice", of |-> s, len |-> n]

\* C4: In the cascading strategy the prompt of stage 1 equals the original
\* question verbatim, and for every stage k > 1 the prompt embeds the prefix
\* of at most 2000 characters of the answer recorded for stage k-1, together
\* with the original question, and the answer of no other stage.
C4_CascadePrompts ==
    \A c \in CallIds : calls[c].strategy = "cascading" =>
        LET call == calls[c]
        IN \A k \in 1..Len(call.asks) :
            IF k = 1
            THEN call.asks[1].prompt = QuestionText(call.question)
            ELSE LET prompt == call.asks[k].prompt
                 IN /\ prompt.kind = "cascade_prompt"
                    /\ prompt.question = QuestionText(call.question)
                    /\ prompt.prev.len <= 2000
                    /\ IsPrefixOf(prompt.prev, call.asks[k - 1].answer, 2000)
                    /\ call.asks[k - 1].answer = Get(call.all_answers, call.asks[k - 1].key)

\* a cascade's third stage carries the cut answer of its second stage,
\* which is longer than 2000 characters
C4_Witness ==
    \E c \in CallIds :
        /\ calls[c].strategy = "cascading"
        /\ Len(calls[c].asks) >= 3
        /\ calls[c].asks[2].status = "ok"
        /\ calls[c].asks[2].answer.len > 2000
        /\ calls[c].asks[3].prompt.prev.kind = "slice"
        /\ calls[c].asks[3].prompt.prev.of = calls[c].asks[2].answer

\* C5: A failed stage does not halt the cascade: for any set of failing
\* stages every targeted persona is still asked exactly once, the failed
\* stage's error marker is recorded as that persona's answer, and that marker
\* (its first 2000 characters) is what the next stage's prompt embeds as the
\* previous answer.
C5_CascadeResilient ==
    \A c \in CallIds : calls[c].strategy = "cascading" =>
        LET call == calls[c]
            N == Len(call.active_personas)
        IN /\ \A k \in 1..Len(call.asks) : call.asks[k].status = "failed" =>
                LET marker == call.asks[k].answer
                IN /\ IsErrorMarker(marker)
                   /\ marker.stage = k
                   /\ Has(call.all_answers, call.asks[k].key)
                   /\ Get(call.all_answers, call.asks[k].key) = marker
                   /\ k < N =>
                        /\ Len(call.asks) >= k + 1
                        /\ call.asks[k + 1].key = call.active_personas[k + 1].k
                        /\ IsPrefixOf(call.asks[k + 1].prompt.prev, marker, 2000)
                   /\ call.pc = "done" =>
                        /\ call.result.entries[k] = [k |-> call.asks[k].key, v |-> marker]
           /\ call.pc = "done" =>
                /\ Len(call.asks) = N
                /\ \A i \in 1..N : call.asks[i].key = call.active_personas[i].k
                /\ Len(call.result.entries) = N

\* a cascade over three personas has returned although its first two
\* stages failed, and its third stage was asked with the second's marker
C5_Witness ==
    \E c \in CallIds :
        /\ calls[c].strategy = "cascading"
        /\ calls[c].pc = "done"
        /\ Len(calls[c].asks) >= 3
        /\ calls[c].asks[1].status = "failed"
        /\ calls[c].asks[2].status = "failed"
        /\ calls[c].asks[3].prompt.prev = calls[c].asks[2].answer

\* the stance and the source bias the catalog gives a persona key
Stance(key) == get_persona(key).red_blue

Bias(key) == get_persona(key).source_bias

Targets(c) == KeySet(calls[c].active_personas)

\* C6: The red_blue partition puts every targeted persona with critical
\* stance in the critical team, every one with supportive stance in the
\* supportive team, and every neutral one in the critical team when its
\* source bias is counter_evidence or regulatory and in the supportive team
\* otherwise.
C6_Partition ==
    \A c \in CallIds : calls[c].strategy = "red_blue" =>
        LET red == KeySet(calls[c].classified.red)
            blue == KeySet(calls[c].classified.blue)
        IN /\ red \cup blue = Targets(c)
           /\ \A key \in Targets(c) :
                /\ Stance(key) = "red" => key \in red /\ key \notin blue
                /\ Stance(key) = "blue" => key \in blue /\ key \notin red
                /\ (Stance(key) = "neutral" /\ Bias(key) \in {"counter_evidence", "regulatory"})
                        => key \in red /\ key \notin blue
                /\ (Stance(key) = "neutral" /\ Bias(key) \notin {"counter_evidence", "regulatory"})
                        => key \in blue /\ key \notin red

\* the targets are two critical personas, a supportive one and a neutral
\* one with regulatory bias, and the partition has three critical-team
\* members and one supportive-team member
C6_Witness ==
    \E c \in CallIds :
        /\ calls[c].strategy = "red_blue"
        /\ Len(calls[c].active_personas) = 4
        /\ Cardinality({key \in Targets(c) : Stance(key) = "red"}) = 2
        /\ Cardinality({key \in Targets(c) : Stance(key) = "blue"}) = 1
        /\ \E key \in Targets(c) : Stance(key) = "neutral" /\ Bias(key) = "regulatory"
        /\ Len(calls[c].classified.red) = 3
        /\ Len(calls[c].classified.blue) = 1

\* C7: For every red_blue query with a non-empty targeted persona set,
\* after partitioning and rebalancing neither the critical team nor the
\* supportive team is empty.
C7_NoEmptyTeam ==
    \A c \in CallIds : calls[c].strategy = "red_blue" =>
        /\ calls[c].teams.blue # <<>>
        /\ calls[c].teams.red # <<>>

Disjoint(t) == KeySet(t.blue) \cap KeySet(t.red) = {}

\* the targeted personas of call c that the partition put in team, in
\* targeted order
InOrder(c, team) == SelectSeq(Keys(calls[c].active_personas), LAMBDA key : key \in KeySet(team))

\* C8: Red/blue rebalancing moves exactly one member and only when a team
\* is empty: if the supportive team is empty, the first member of the
\* critical team (in targeted order) moves to supportive; if the critical
\* team is empty, the last member of the supportive team moves to critical.
\* Before and after rebalancing the two teams are disjoint and together
\* equal the targeted set, and each targeted persona is asked exactly once,
\* with the framing prompt of the team it ended up in.
C8_Rebalance ==
    \A c \in CallIds : calls[c].strategy = "red_blue" =>
        LET call == calls[c]
            before == call.classified
            after == call.teams
            reds == InOrder(c, before.red)
            blues == InOrder(c, before.blue)
        IN /\ Disjoint(before) /\ KeySet(before.blue) \cup KeySet(before.red) = Targets(c)
           /\ Disjoint(after) /\ KeySet(after.blue) \cup KeySet(after.red) = Targets(c)
           /\ IF before.blue = <<>>
              THEN /\ KeySet(after.blue) = {reds[1]}
                   /\ Keys(after.red) = Tail(reds)
              ELSE IF before.red = <<>>
              THEN /\ KeySet(after.red) = {blues[Len(blues)]}
                   /\ Keys(after.blue) = SubSeq(blues, 1, Len(blues) - 1)
              ELSE after = before
           /\ Len(call.asks) = Len(call.active_personas)
           /\ \A key \in Targets(c) :
                \E i \in 1..Len(call.asks) :
                    /\ call.asks[i].key = key
                    /\ call.asks[i].nb = Get(call.active_personas, key)
                    /\ \A j \in 1..Len(call.asks) : call.asks[j].key = key => j = i
                    /\ call.asks[i].prompt =
                        TeamPrompt(IF key \in KeySet(after.blue) THEN "blue" ELSE "red",
                                   QuestionText(call.question))

\* a red_blue call over two personas that the partition both put in the
\* critical team has returned: the first of them was asked as supportive
C8_Witness ==
    \E c \in CallIds :
        /\ calls[c].strategy = "red_blue"
        /\ calls[c].pc = "done"
        /\ calls[c].classified.blue = <<>>
        /\ Len(calls[c].classified.red) >= 2
        /\ Len(calls[c].teams.blue) = 1
        /\ \E i \in 1..Len(calls[c].asks) :
            /\ calls[c].asks[i].key = calls[c].active_personas[1].k
            /\ calls[c].asks[i].prompt.team = "blue"

Returns(c) == calls[c].pc # "done" /\ calls'[c].pc = "done"

\* the history of every session is as long as the number of calls on it
\* that passed validation and returned
C9_State ==
    \A o \in 1..Len(heap) :
        Len(heap[o].query_history) =
            Cardinality({c \in CallIds : calls[c].session = o /\ calls[c].result.kind = "ok"})

C9_Step ==
    /\ \A o \in 1..Len(heap) :
        LET old == heap[o].query_history
            new == heap'[o].query_history
        IN /\ Len(new) >= Len(old)
           /\ SubSeq(new, 1, Len(old)) = old
           /\ (\A c \in CallIds : calls[c].session = o => ~Returns(c)) => new = old
    /\ \A c \in CallIds : Returns(c) =>
        LET o == calls[c].session
        IN heap'[o].query_history =
            Append(heap[o].query_history,
                   [question |-> calls[c].question, strategy |-> calls[c].strategy,
                    persona_count |-> Cardinality(Targets(c))])

\* C9: Every query call that passes validation appends exactly one entry to
\* the session's query history, recording the question, the strategy name
\* and the number of targeted personas, whatever number of its asks failed;
\* the history only grows and earlier entries are never changed or removed.
C9_HistoryAppend == [][C9_State' /\ C9_Step]_vars

\* a call whose asks all failed has returned after an earlier call on the
\* same session, and the history holds the entries of both
C9_Witness ==
    \E c \in CallIds :
        /\ calls[c].pc = "done"
        /\ Len(calls[c].asks) >= 2
        /\ \A i \in 1..Len(calls[c].asks) : calls[c].asks[i].status = "failed"
        /\ LET h == SessionOf(c).query_history
           IN /\ Len(h) = 2
              /\ h[2].question = calls[c].question
              /\ h[2].strategy = calls[c].strategy
              /\ h[2].persona_count = Len(calls[c].asks)

\* C10: After an independent query completes, the session's latest-answer
\* mapping is fully overwritten, not merged: it holds an entry for exactly
\* the targeted persona keys, and entries left by earlier queries for
\* personas not targeted in this call are no longer present.
C10_IndependentOverwrites ==
    [][\A c \in CallIds : (calls[c].strategy = "independent" /\ Returns(c)) =>
            KeySet(heap'[calls[c].session].last_results) = Targets(c)]_vars

\* the answer the query call c recorded for its i-th ask is that persona's
\* own: the backend's answer to this call's ask of that persona, or the
\* error marker of the failed ask
OwnAnswer(c, i) ==
    LET ask == calls'[c].asks[i]
    IN /\ Completed(ask)
       /\ ask.status = "ok" =>
            ask.answer.kind = "answer" /\ ask.answer.call = c /\ ask.answer.key = ask.key
       /\ ask.status = "failed" => IsErrorMarker(ask.answer)

\* C11: After a cascading query completes, the session's latest-answer
\* mapping is replaced wholesale: its key set equals exactly the personas
\* targeted by that call and each maps to that call's answer or error
\* marker, while the query history is appended to, not replaced.
C11_CascadeReplaces ==
    [][\A c \in CallIds : (calls[c].strategy = "cascading" /\ Returns(c)) =>
            LET old == heap[calls[c].session]
                new == heap'[calls[c].session]
                asks == calls'[c].asks
            IN /\ KeySet(new.last_results) = Targets(c)
               /\ Len(new.last_results) = Cardinality(Targets(c))
               /\ Len(asks) = Cardinality(Targets(c))
               /\ \A i \in 1..Len(asks) :
                    /\ OwnAnswer(c, i)
                    /\ Get(new.last_results, asks[i].key) = asks[i].answer
               /\ Len(new.query_history) = Len(old.query_history) + 1
               /\ SubSeq(new.query_history, 1, Len(old.query_history)) = old.query_history
               /\ new.query_history[Len(new.query_history)].strategy = "cascading"]_vars

\* a cascade over one persona has returned after a query over other
\* personas of the session: the mapping holds the cascade's entry alone and
\* the history holds both queries
C11_Witness ==
    \E c, d \in CallIds :
        /\ calls[c].strategy = "cascading" /\ calls[c].pc = "done"
        /\ calls[d].result.kind = "ok" /\ calls[d].session = calls[c].session
        /\ Targets(d) \cap Targets(c) = {}
        /\ LET session == SessionOf(c)
           IN /\ Len(session.query_history) = 2
              /\ session.query_history[1].question = calls[d].question
              /\ session.query_history[2].question = calls[c].question
              /\ KeySet(session.last_results) = Targets(c)

\* C12: After a red_blue query completes, every targeted persona of either
\* team maps to this round's answer in the latest-answer mapping, and the
\* entry of every persona not targeted in this round is exactly what it was
\* before the call stored its answers (non-destructive merge).
C12_RedBlueMerge ==
    [][\A c \in CallIds : (calls[c].strategy = "red_blue" /\ Returns(c)) =>
            LET old == heap[calls[c].session].last_results
                new == heap'[calls[c].session].last_results
                asks == calls'[c].asks
            IN /\ {asks[i].key : i \in 1..Len(asks)} = Targets(c)
               /\ \A i \in 1..Len(asks) :
                    /\ asks[i].team \in {"blue", "red"}
                    /\ OwnAnswer(c, i)
                    /\ Has(new, asks[i].key)
                    /\ Get(new, asks[i].key) = asks[i].answer
               /\ \A key \in PoolKeys \ Targets(c) :
                    /\ Has(new, key) <=> Has(old, key)
                    /\ Has(old, key) => Get(new, key) = Get(old, key)]_vars

\* a red_blue call over two personas has returned after a query over a
\* third persona of the session: the mapping holds the red_blue answers of
\* both teams and still holds the earlier query's answer for the third
C12_Witness ==
    \E c, d \in CallIds :
        /\ calls[c].strategy = "red_blue" /\ calls[c].pc = "done"
        /\ Len(calls[c].teams.blue) >= 1 /\ Len(calls[c].teams.red) >= 1
        /\ calls[d].result.kind = "ok" /\ calls[d].session = calls[c].session
        /\ Targets(d) \cap Targets(c) = {}
        /\ LET session == SessionOf(c)
           IN /\ session.query_history[2].question = calls[c].question
              /\ \A key \in Targets(c) :
                    Has(session.last_results, key)
                    /\ Get(session.last_results, key).kind = "answer"
                    /\ Get(session.last_results, key).call = c
              /\ \A key \in Targets(d) :
                    Has(session.last_results, key)
                    /\ Get(session.last_results, key).kind = "answer"
                    /\ Get(session.last_results, key).call = d

\* C13: Concurrent dispatches within one query call never lose an update:
\* when k personas are asked concurrently in one independent or red_blue
\* query, then for every completion order of the k asks the latest-answer
\* mapping afterwards contains all k entries, each holding that persona's
\* own answer.
C13_NoLostUpdate ==
    [][\A c \in CallIds : (GatherCall(c) /\ Returns(c)) =>
            LET new == heap'[calls[c].session].last_results
                asks == calls'[c].asks
                k == Len(calls[c].active_personas)
            IN /\ Len(asks) = k
               /\ Cardinality({asks[i].key : i \in 1..k}) = k
               /\ \A i \in 1..k :
                    /\ OwnAnswer(c, i)
                    /\ Has(new, asks[i].key)
                    /\ Get(new, asks[i].key) = asks[i].answer]_vars

\* an independent call over four personas has returned with every ask
\* answered, and the mapping holds the four answers
C13_Witness ==
    \E c \in CallIds :
        /\ calls[c].strategy = "independent" /\ calls[c].pc = "done"
        /\ Len(calls[c].asks) = 4
        /\ \A i \in 1..4 :
            /\ calls[c].asks[i].status = "ok"
            /\ Get(SessionOf(c).last_results, calls[c].asks[i].key) = calls[c].asks[i].answer
        /\ Len(SessionOf(c).last_results) = 4

\* the step starts a persona_query call, which becomes calls'[Len(calls')]
QueryCalled == Len(calls') = Len(calls) + 1

\* the step starts a persona_synthesize call
SynthCalled == Len(synths') = Len(synths) + 1

\* the step leaves every stored session, the store and the registry alone
\* and dispatches no ask
NothingStored ==
    /\ heap' = heap
    /\ _persona_sessions' = _persona_sessions
    /\ _active_conversations' = _active_conversations
    /\ askCount' = askCount

C14_Step ==
    /\ QueryCalled =>
        LET call == calls'[Len(calls')]
        IN _persona_sessions[call.session_id] = 0 =>
            /\ call.pc = "done"
            /\ call.result.kind = "not_found"
            /\ call.asks = <<>>
            /\ NothingStored
    /\ SynthCalled =>
        LET synth == synths'[Len(synths')]
        IN _persona_sessions[synth.session_id] = 0 =>
            /\ synth.pc = "done"
            /\ synth.result.kind = "not_found"
            /\ synth.backend = <<>>
            /\ NothingStored
    \* a call that has returned takes no further step
    /\ \A c \in CallIds : calls[c].pc = "done" => calls'[c] = calls[c]
    /\ \A s \in 1..Len(synths) : synths[s].pc = "done" => synths'[s] = synths[s]

\* C14: A query or synthesize call with a session id that is not in the
\* store returns a not-found error, issues no backend ask, and leaves every
\* stored session (bindings, latest answers, history) and the
\* conversation-handle registry unchanged.
C14_UnknownSession == [][C14_Step]_vars

\* a query and a synthesize have returned not-found for an id that is not
\* in the store, while the store holds a session with answers and history
C14_Witness ==
    /\ \E c \in CallIds :
        /\ calls[c].result.kind = "not_found"
        /\ _persona_sessions[calls[c].session_id] = 0
    /\ \E s \in 1..Len(synths) :
        /\ synths[s].result.kind = "not_found"
        /\ _persona_sessions[synths[s].session_id] = 0
    /\ \E o \in 1..Len(heap) :
        /\ heap[o].last_results # <<>>
        /\ heap[o].query_history # <<>>

\* the keys of the list passed as persona_keys that the session of call c
\* binds to a notebook
BoundKeys(c) ==
    LET list == calls[c].persona_keys.list
    IN {list[i] : i \in 1..Len(list)} \cap KeySet(SessionOf(c).notebooks)

\* C15: Whenever a persona subset is supplied to query and none of its keys
\* is bound to the session, the call fails with NoValidPersonas: no ask is
\* issued, no history entry is appended and the latest-answer mapping is
\* unchanged.  When the subset contains both bound and unbound keys, exactly
\* the bound ones are targeted.
C15_NoValidPersonas ==
    /\ \A c \in CallIds : (calls[c].session # 0 /\ calls[c].persona_keys.given) =>
        IF BoundKeys(c) = {}
        THEN /\ calls[c].result.kind = "no_valid"
             /\ calls[c].asks = <<>>
        ELSE /\ calls[c].result.kind # "no_valid"
             /\ Targets(c) = BoundKeys(c)
    /\ \A o \in 1..Len(heap) :
        /\ Len(heap[o].query_history) =
            Cardinality({c \in CallIds : calls[c].session = o /\ calls[c].result.kind = "ok"})
        /\ \A key \in KeySet(heap[o].last_results) :
            \E c \in CallIds : calls[c].session = o /\ key \in Targets(c)

\* the part of C15 that the code keeps: the same statement for the lists
\* that hold at least one key
C15_NonEmptySubsets ==
    \A c \in CallIds : (calls[c].session # 0 /\ Truthy(calls[c].persona_keys)) =>
        IF BoundKeys(c) = {}
        THEN /\ calls[c].result.kind = "no_valid"
             /\ calls[c].asks = <<>>
        ELSE /\ calls[c].result.kind # "no_valid"
             /\ Targets(c) = BoundKeys(c)

\* the asks of call c that the step issues: they are in flight after the
\* step and were not before
Issued(c) ==
    {i \in 1..Len(calls'[c].asks) :
        /\ calls'[c].asks[i].status = "inflight"
        /\ (c > Len(calls) \/ i > Len(calls[c].asks) \/ calls[c].asks[i].status = "pending")}

C20_Step ==
    \A c \in 1..Len(calls') : \A i \in Issued(c) :
        LET ask == calls'[c].asks[i]
            recorded == _active_conversations'[ask.nb]
        IN IF calls'[c].continue_conversation /\ recorded # 0
           THEN ask.conversation_id = recorded
           ELSE ask.conversation_id = 0

C20_State ==
    \A c \in CallIds : \A i \in 1..Len(calls[c].asks) :
        /\ ~calls[c].continue_conversation => calls[c].asks[i].conversation_id = 0
        /\ calls[c].asks[i].status = "pending" => calls[c].asks[i].conversation_id = 0

\* C20: If continueConversation is set, every ask issued by any of the three
\* strategies carries the conversation handle that the registry records for
\* that persona's backend context at the moment the ask is issued, whenever
\* one is recorded; if continueConversation is not set, no ask carries a
\* conversation handle.
C20_ConversationHandle == [][C20_State' /\ C20_Step]_vars

\* a continuing call has issued two asks that carry two different handles,
\* and an ask of a call that does not continue carries none although the
\* registry records a handle for its notebook
C20_Witness ==
    \E c, d \in CallIds :
        /\ calls[c].continue_conversation
        /\ Len(calls[c].asks) >= 2
        /\ calls[c].asks[1].conversation_id # 0
        /\ calls[c].asks[2].conversation_id # 0
        /\ calls[c].asks[1].conversation_id # calls[c].asks[2].conversation_id
        /\ ~calls[d].continue_conversation
        /\ \E i \in 1..Len(calls[d].asks) :
            /\ calls[d].asks[i].status # "pending"
            /\ _active_conversations[calls[d].asks[i].nb] # 0

NoDuplicates(keys) == \A i, j \in 1..Len(keys) : keys[i] = keys[j] => i = j

StanceOf(keys, team) == {i \in 1..Len(keys) : Stance(keys[i]) = team}

\* the first n candidates of the greedy order
Top(n) == {rec.scored[i] : i \in 1..Min(n, Len(rec.scored))}

\* C16: For every topic and every maxCount in [1,4], recommend returns at
\* most maxCount persona configurations and no persona key occurs twice in
\* the result, including after the two forced-balance replacements.
C16_BoundedDistinct ==
    /\ NoDuplicates(rec.selected)
    /\ Len(rec.selected) <= rec.max_count
    /\ rec.pc = "done" =>
        /\ Len(rec.result) <= rec.max_count
        /\ NoDuplicates(rec.result)
        /\ Range(rec.result) \subseteq PoolKeys

\* a call with max_count 2 has returned after both forced replacements:
\* the greedy pass took the two best candidates and neither is in the result
C16_Witness ==
    /\ rec.pc = "done"
    /\ rec.max_count = 2
    /\ rec.skipped = <<>>
    /\ Len(rec.result) = 2
    /\ Top(2) \cap Range(rec.result) = {}
    /\ "devil_advocate" \in Range(rec.result)
    /\ StanceOf(rec.result, "blue") # {}

\* the step is the forced critical replacement (pass = "ensure_red") or the
\* forced supportive one (pass = "ensure_blue")
Pass(pass) == rec.pc = pass /\ rec'.pc # pass

\* the personas of a stance that the step keeps selected
Kept(team) ==
    \A i \in StanceOf(rec.selected, team) : rec.selected[i] \in Range(rec'.selected)

C17_State ==
    (rec.pc = "done" /\ rec.max_count >= 2 /\ Len(rec.selected) >= rec.max_count) =>
        /\ StanceOf(rec.result, "red") # {}
        /\ StanceOf(rec.result, "blue") # {}

C17_Step ==
    rec.max_count >= 2 =>
        /\ Pass("ensure_red") => Kept("blue")
        /\ Pass("ensure_blue") => Kept("red")

\* C17: For every topic and every maxCount >= 2, if recommend's selection
\* is full (maxCount personas) then the result contains at least one
\* critical-stance persona and at least one supportive-stance persona; the
\* supportive pass never removes the only critical persona and the critical
\* pass never removes the only supportive one.
C17_BothStances == [][C17_State' /\ C17_Step]_vars

\* a call with max_count 3 has returned: the greedy pass took the three
\* best candidates, none of them critical and one supportive; the critical
\* pass put devil_advocate in and the supportive one is still there
C17_Witness ==
    /\ rec.pc = "done"
    /\ rec.max_count = 3
    /\ rec.skipped = <<>>
    /\ \A key \in Top(3) : Stance(key) # "red"
    /\ "devil_advocate" \in Range(rec.result)
    /\ \E key \in Top(3) : Stance(key) = "blue" /\ key \in Range(rec.result)

\* max(1, (maxCount+1) div 2)
Cap(maxCount) == IF (maxCount + 1) \div 2 > 1 THEN (maxCount + 1) \div 2 ELSE 1

\* C18: At every step of recommend's greedy pass, the number of selected
\* critical-stance personas and the number of selected supportive-stance
\* personas are each at most max(1, (maxCount+1) div 2); neutral-stance
\* personas are never rejected by the cap.
C18_GreedyCap ==
    rec.pc \in {"greedy", "ensure_red"} =>
        /\ Cardinality(StanceOf(rec.selected, "red")) <= Cap(rec.max_count)
        /\ Cardinality(StanceOf(rec.selected, "blue")) <= Cap(rec.max_count)
        /\ \A i \in 1..Len(rec.skipped) : Stance(rec.skipped[i]) \in {"red", "blue"}
        /\ \A i \in 1..(rec.i - 1) :
            Stance(rec.scored[i]) = "neutral" => rec.scored[i] \in Range(rec.selected)

\* the greedy pass has refused a critical candidate at the cap and has
\* selected a neutral candidate that came after it
C18_Witness ==
    /\ rec.pc = "greedy"
    /\ rec.skipped # <<>>
    /\ Stance(rec.skipped[1]) = "red"
    /\ Cardinality(StanceOf(rec.selected, "red")) = Cap(rec.max_count)
    /\ rec.selected # <<>>
    /\ Stance(rec.selected[Len(rec.selected)]) = "neutral"
    /\ \E i, j \in 1..Len(rec.scored) :
        /\ i < j
        /\ rec.scored[i] = rec.skipped[1]
        /\ rec.scored[j] = rec.selected[Len(rec.selected)]

\* the domains with a keyword that counts for the topic
Matching(topic) ==
    {DOMAIN_KEYWORDS[d].domain : d \in
        {d \in 1..Len(DOMAIN_KEYWORDS) :
            \E i \in 1..Len(DOMAIN_KEYWORDS[d].keywords) :
                KeywordMatches(DOMAIN_KEYWORDS[d].keywords[i], topic)}}

\* C19: classify never returns an empty list: when no keyword of any domain
\* matches the topic it returns the fixed default list [technology,
\* business], and otherwise it returns exactly the domains with a positive
\* match count, each once.
C19_ClassifyNeverEmpty ==
    rec.pc \notin {"idle", "call"} =>
        /\ rec.domains # <<>>
        /\ NoDuplicates(rec.domains)
        /\ IF Matching(rec.topic) = {}
           THEN rec.domains = <<"technology", "business">>
           ELSE Range(rec.domains) = Matching(rec.topic)

\* a topic that is not empty and holds no keyword has been classified
C19_Witness ==
    /\ rec.pc \notin {"idle", "call"}
    /\ rec.topic # <<>>
    /\ Matching(rec.topic) = {}
    /\ rec.domains = <<"technology", "business">>

C22_Step ==
    /\ SynthCalled =>
        LET synth == synths'[Len(synths')]
            obj == _persona_sessions[synth.session_id]
        IN obj # 0 =>
            IF heap[obj].last_results = <<>>
            THEN /\ synth.pc = "done"
                 /\ synth.result.kind = "no_results"
                 /\ synth.backend = <<>>
                 /\ NothingStored
            ELSE /\ synth.result.kind # "no_results"
                 /\ synth.pc = "add_text"
                 /\ synth.backend = <<"add_text">>
    \* no later step of the call turns its result into that error
    /\ \A s \in 1..Len(synths) :
        synths'[s].result.kind = "no_results" => synths'[s] = synths[s]

\* C22: synthesize on a session whose latest-answer mapping is empty (no
\* query has completed yet) fails with an error, issues no backend call and
\* leaves the session unchanged; on a session with at least one stored
\* answer it does not fail for that reason.
C22_SynthesizeNeedsAnswers == [][C22_Step]_vars

\* synthesize has failed on a stored session that has no answers yet while
\* a query on that session is waiting for its asks
C22_Witness ==
    \E s \in 1..Len(synths) :
        /\ synths[s].result.kind = "no_results"
        /\ synths[s].session # 0
        /\ synths[s].backend = <<>>
        /\ heap[synths[s].session].last_results = <<>>
        /\ \E c \in CallIds :
            /\ calls[c].session = synths[s].session
            /\ calls[c].pc # "done"
            /\ \E i \in 1..Len(calls[c].asks) : calls[c].asks[i].status = "ok"

\* the blocks of a prompt are the entries of a latest-answer mapping, one
\* block per entry and in its order
BlocksOf(prompt, last_results) ==
    /\ Len(prompt.persona_answers) = Len(last_results)
    /\ \A i \in 1..Len(last_results) :
        /\ prompt.persona_answers[i].name = last_results[i].k
        /\ prompt.persona_answers[i].answer = last_results[i].v

C23_Step ==
    /\ SynthCalled =>
        LET synth == synths'[Len(synths')]
        IN synth.pc # "done" =>
            /\ synth.prompt.kind = "synthesis_prompt"
            /\ synth.prompt.topic = heap[synth.session].topic
            /\ BlocksOf(synth.prompt, heap[synth.session].last_results)
            /\ synth.synthesis_type \in {"comprehensive", "decision_matrix", "debate_summary"}
                    => synth.prompt.template = synth.synthesis_type
    \* the prompt is built once: the ask sends what was built at the call
    /\ \A s \in 1..Len(synths) : synths'[s].prompt = synths[s].prompt

\* C23: The synthesis prompt built for a session contains the session's
\* topic and one labeled block for every entry of the latest-answer mapping,
\* no more and no fewer, for each of the three synthesis types; entries that
\* are error markers and entries left over from earlier query rounds are
\* included like any other stored answer.
C23_SynthesisPrompt == [][C23_Step]_vars

\* a debate summary is being synthesized after two query rounds: its prompt
\* has a block with the answer the first round left for a persona the
\* second round did not target, and a block with an error marker
C23_Witness ==
    \E s \in 1..Len(synths) :
        LET blocks == synths[s].prompt.persona_answers
        IN /\ synths[s].pc # "done"
           /\ synths[s].synthesis_type = "debate_summary"
           /\ Len(heap[synths[s].session].query_history) = 2
           /\ Len(blocks) = 2
           /\ \E i, j \in 1..2 :
                /\ IsErrorMarker(blocks[i].answer)
                /\ blocks[j].answer.kind = "answer"
                /\ blocks[j].answer.call = 1
                /\ blocks[j].name \notin Targets(2)
                /\ blocks[i].name \in Targets(2)

\* session object o has the bindings and the configurations its
\* persona_setup call built
AsCreated(o) ==
    \E s \in 1..Len(setups) :
        /\ setups[s].result = "ok"
        /\ setups[s].session_id = heap[o].session_id
        /\ setups[s].notebooks = heap[o].notebooks
        /\ ConfigDict(setups[s].valid_personas) = heap[o].personas

\* a query that dispatched asks and returned: a normal result with one
\* entry per targeted persona, an error marker for every ask that failed,
\* and the session is where it was, as it was created
C24_State ==
    \A c \in CallIds : (calls[c].pc = "done" /\ calls[c].asks # <<>>) =>
        /\ calls[c].result.kind = "ok"
        /\ OneAskPerTarget(c)
        /\ Len(calls[c].result.entries) = Len(calls[c].asks)
        /\ \A i \in 1..Len(calls[c].asks) :
            /\ calls[c].result.entries[i].k = calls[c].asks[i].key
            /\ calls[c].asks[i].status = "failed"
                    => IsErrorMarker(calls[c].result.entries[i].v)
        /\ _persona_sessions[calls[c].session_id] # 0
        /\ AsCreated(calls[c].session)

\* a query or a synthesize on a session that has been queried before
C24_Step ==
    /\ QueryCalled =>
        LET call == calls'[Len(calls')]
            obj == _persona_sessions[call.session_id]
            list == call.persona_keys.list
            bound == {list[i] : i \in 1..Len(list)} \cap KeySet(heap[obj].notebooks)
        IN (obj # 0 /\ heap[obj].query_history # <<>>) =>
            IF Truthy(call.persona_keys) /\ bound = {}
            THEN call.result.kind = "no_valid"
            ELSE /\ call.pc # "done"
                 /\ call.asks # <<>>
                 /\ KeySet(call.active_personas) =
                        IF Truthy(call.persona_keys) THEN bound
                        ELSE KeySet(heap[obj].notebooks)
    /\ SynthCalled =>
        LET synth == synths'[Len(synths')]
            obj == _persona_sessions[synth.session_id]
        IN (obj # 0 /\ heap[obj].query_history # <<>>) =>
            /\ synth.pc = "add_text"
            /\ Len(synth.prompt.persona_answers) = Len(heap[obj].last_results)

\* C24: A backend failure is never fatal to a strategy or to the session:
\* after a query in which any number of asks fail, including all of them,
\* the call returns a normal result with inline error markers, the session
\* is still in the store with its bindings unchanged, and a subsequent query
\* on it dispatches asks to all its targeted personas and a subsequent
\* synthesize is accepted.
C24_FailureNotFatal == [][C24_State' /\ C24_Step]_vars

\* every ask of a query on two personas failed; a later query on the same
\* session has asked both personas and returned, and a synthesize whose
\* prompt holds error markers only has returned its report
C24_Witness ==
    \E c, d \in CallIds, s \in 1..Len(synths) :
        /\ c < d
        /\ calls[c].session = calls[d].session
        /\ calls[c].pc = "done"
        /\ Len(calls[c].asks) = 2
        /\ \A i \in 1..2 : calls[c].asks[i].status = "failed"
        /\ calls[d].pc = "done"
        /\ Len(calls[d].asks) = 2
        /\ synths[s].session = calls[c].session
        /\ synths[s].result.kind = "ok"
        /\ Len(synths[s].prompt.persona_answers) = 2
        /\ \A i \in 1..2 : IsErrorMarker(synths[s].prompt.persona_answers[i].answer)

\* persona_setup call s has reported the unknown key and has created and
\* stored nothing: it has no notebook and generated no session id
Aborted(s) ==
    /\ setups[s].pc = "done"
    /\ setups[s].result = "unknown_key"
    /\ setups[s].notebooks = <<>>
    /\ setups[s].session_id = ""

\* C25: If any persona key supplied to setup is not in the catalog, setup
\* reports a validation error and aborts before any backend context is
\* created: no notebook is created, no session is stored and the store is
\* unchanged.
C25_UnknownKeyAborts ==
    \A s \in 1..Len(setups) :
        (\E i \in 1..Len(setups[s].persona_keys) : setups[s].persona_keys[i] \notin PoolKeys)
            => Aborted(s)

\* the part of C25 that the code keeps: the same statement for the first
\* four keys supplied
C25_FirstFourKeys ==
    \A s \in 1..Len(setups) :
        LET keys == setups[s].persona_keys
        IN (\E i \in 1..Min(Len(keys), 4) : keys[i] \notin PoolKeys) => Aborted(s)

\* C26: In every stored session, at every reachable state, every persona
\* key of the context-handle mapping has an entry in the configuration
\* mapping, also when some backend-context creations failed during setup or
\* the same key was supplied twice.
C26_BindingsConfigured ==
    \A o \in 1..Len(heap) :
        /\ KeySet(heap[o].notebooks) \subseteq KeySet(heap[o].personas)
        /\ \A i \in 1..Len(heap[o].notebooks) :
            Get(heap[o].personas, heap[o].notebooks[i].k).key = heap[o].notebooks[i].k

\* a session is stored and has been queried whose setup was given the same
\* key twice and saw one of its two notebook creations fail
C26_Witness ==
    \E s \in 1..Len(setups), o \in 1..Len(heap) :
        /\ setups[s].persona_keys = <<"futurist", "futurist">>
        /\ setups[s].result = "ok"
        /\ nextNb = 1
        /\ heap[o].session_id = setups[s].session_id
        /\ KeySet(heap[o].notebooks) = {"futurist"}
        /\ heap[o].query_history # <<>>

\* C27: Once a session is stored, its context-handle mapping never changes:
\* no query (any strategy, any subset, including red_blue rebalancing that
\* pops members from a team) and no synthesize call adds, removes or rebinds
\* a persona-to-context entry.
C27_BindingsImmutable ==
    \A o \in 1..Len(heap) :
        \E s \in 1..Len(setups) :
            /\ setups[s].result = "ok"
            /\ setups[s].session_id = heap[o].session_id
            /\ setups[s].notebooks = heap[o].notebooks

\* a red_blue query on all the personas of a session, whose rebalancing
\* popped a member from its team, a query on a subset and a synthesize have
\* all returned, and the session binds both its personas
C27_Witness ==
    \E c, d \in CallIds, s \in 1..Len(synths) :
        /\ calls[c].strategy = "red_blue"
        /\ calls[c].pc = "done"
        /\ ~calls[c].persona_keys.given
        /\ calls[c].teams # calls[c].classified
        /\ calls[d].pc = "done"
        /\ calls[d].session = calls[c].session
        /\ Len(calls[d].asks) = 1
        /\ synths[s].result.kind = "ok"
        /\ synths[s].session = calls[c].session
        /\ Len(SessionOf(c).notebooks) = 2

\* the keywords of the domain DOMAIN_KEYWORDS[d]
KeywordsOf(d) == DOMAIN_KEYWORDS[d].keywords

\* the domains that classify_domain has given a count, as indices of
\* DOMAIN_KEYWORDS
Counted == {d \in 1..Len(DOMAIN_KEYWORDS) : Has(rec.scores, DOMAIN_KEYWORDS[d].domain)}

\* the count of a domain after classification, 0 for a domain with no entry
CountOf(d) ==
    IF d \in Counted THEN Get(rec.scores, DOMAIN_KEYWORDS[d].domain) ELSE 0

\* C28: In classify, a keyword of length <= 3 adds to its domain's count
\* only when it occurs in the topic as a whole word bounded by word
\* boundaries; an occurrence inside a longer word does not count.  A longer
\* keyword counts when it occurs as a case-insensitive substring, and each
\* keyword adds at most 1 to a domain's count.
C28_ShortKeywordWholeWord ==
    rec.pc \notin {"idle", "call"} =>
        \A d \in 1..Len(DOMAIN_KEYWORDS) :
            CountOf(d) = Cardinality({i \in 1..Len(KeywordsOf(d)) :
                IF Len(KeywordsOf(d)[i]) <= 3
                THEN SearchWord(KeywordsOf(d)[i], rec.topic)
                ELSE In(ToLower(KeywordsOf(d)[i]), ToLower(rec.topic))})

\* the part of C28 that the code keeps: a keyword of any length counts when
\* it occurs as a case-insensitive substring, and adds at most 1
C28_SubstringCount ==
    rec.pc \notin {"idle", "call"} =>
        \A d \in 1..Len(DOMAIN_KEYWORDS) :
            CountOf(d) = Cardinality({i \in 1..Len(KeywordsOf(d)) :
                In(ToLower(KeywordsOf(d)[i]), ToLower(rec.topic))})

\* the persona has the wildcard tag
Wildcard(key) == "*" \in Range(get_persona(key).domains)

\* the persona has a domain in common with the classified domain list
Overlapping(key) == Range(get_persona(key).domains) \cap Range(rec.domains) # {}

\* C29: recommend never returns a persona that lacks the wildcard tag and
\* has no domain in common with the classified domain list, neither from the
\* greedy pass nor from the forced critical and supportive replacements; and
\* in the greedy order every overlapping domain-specific persona is
\* considered before every wildcard persona.
C29_OnlyRelevant ==
    rec.pc \notin {"idle", "call"} =>
        /\ \A key \in Range(rec.selected) \cup Range(rec.result) :
            Wildcard(key) \/ Overlapping(key)
        /\ \A key \in PoolKeys :
            (~Wildcard(key) /\ Overlapping(key)) => key \in Range(rec.scored)
        /\ \A i, j \in 1..Len(rec.scored) :
            (~Wildcard(rec.scored[i]) /\ Wildcard(rec.scored[j])) => i < j

\* a call with max_count 3 has returned after the forced supportive
\* replacement: the greedy pass took the three best candidates, all
\* domain-specific and none supportive; the result holds two of them and
\* the universal futurist, while the pool has a supportive persona with no
\* domain of the topic
C29_Witness ==
    /\ rec.pc = "done"
    /\ rec.max_count = 3
    /\ rec.skipped = <<>>
    /\ \A key \in Top(3) : ~Wildcard(key) /\ Stance(key) # "blue"
    /\ Range(rec.result) \ Top(3) = {"futurist"}
    /\ Cardinality(Range(rec.result) \cap Top(3)) = 2
    /\ \E key \in PoolKeys :
        /\ Stance(key) = "blue"
        /\ ~Wildcard(key)
        /\ ~Overlapping(key)

\* the asks that return with an answer in the step, as records of the
\* notebook and of the conversation_id of the result
Answered ==
    UNION {{[nb |-> calls[c].asks[i].nb, returned |-> calls'[c].asks[i].returned] :
                i \in {j \in 1..Len(calls[c].asks) :
                            /\ calls[c].asks[j].status = "inflight"
                            /\ calls'[c].asks[j].status = "ok"}} : c \in CallIds}
    \cup {[nb |-> chats[k].notebook_id, returned |-> chats'[k].returned] :
            k \in {j \in 1..Len(chats) : /\ chats[j].tool = "chat_ask"
                                           /\ chats[j].pc = "ask"
                                           /\ chats'[j].result = "answer"}}

\* the step is a call of chat_ask or chat_clear, which becomes
\* chats'[Len(chats')]
ChatCalled == Len(chats') = Len(chats) + 1

C21_Step ==
    \* an ask that returns a conversation handle leaves it in the registry
    /\ \A a \in Answered : a.returned # 0 => _active_conversations'[a.nb] = a.returned
    \* the registry entry of a notebook changes in no other way, but for a
    \* chat_clear, which removes it
    /\ \A nb \in NbIds : _active_conversations'[nb] # _active_conversations[nb] =>
        \/ \E a \in Answered : a.nb = nb /\ a.returned = _active_conversations'[nb]
        \/ /\ ChatCalled
           /\ chats'[Len(chats')].tool = "chat_clear"
           /\ chats'[Len(chats')].notebook_id = nb
           /\ _active_conversations'[nb] = 0
    \* a continuing ask of a strategy or of chat_ask carries the entry
    /\ \A c \in 1..Len(calls') : \A i \in Issued(c) :
        calls'[c].continue_conversation =>
            calls'[c].asks[i].conversation_id = _active_conversations'[calls'[c].asks[i].nb]
    /\ (ChatCalled /\ chats'[Len(chats')].tool = "chat_ask") =>
        LET chat == chats'[Len(chats')]
        IN chat.continue_conversation =>
            chat.conversation_id = _active_conversations[chat.notebook_id]

\* C21: When an ask issued by any strategy succeeds and returns a
\* conversation handle, the registry entry of that backend context equals
\* that handle immediately afterwards, whether or not continueConversation
\* was set; the registry is shared, so the next continuing ask on the same
\* context by any strategy or by the single-notebook chat operation carries
\* that handle.
C21_RegistryShared == [][C21_Step]_vars

\* chat_ask recorded a handle; a query that does not continue asked the
\* same notebook without a handle and its answer brought another one, which
\* the next chat_ask, continuing, has carried
C21_Witness ==
    \E k1, k2 \in 1..Len(chats), c \in CallIds :
        /\ k1 < k2
        /\ chats[k1].tool = "chat_ask"
        /\ chats[k1].returned # 0
        /\ ~calls[c].continue_conversation
        /\ calls[c].asks # <<>>
        /\ calls[c].asks[1].nb = chats[k1].notebook_id
        /\ calls[c].asks[1].conversation_id = 0
        /\ calls[c].asks[1].returned \notin {0, chats[k1].returned}
        /\ chats[k2].tool = "chat_ask"
        /\ chats[k2].continue_conversation
        /\ chats[k2].notebook_id = chats[k1].notebook_id
        /\ chats[k2].conversation_id = calls[c].asks[1].returned
        /\ chats[k2].pc = "ask"
        /\ _active_conversations[chats[k2].notebook_id] = calls[c].asks[1].returned

\* chat_clear k has returned its confirmation, every ask on its notebook was
\* issued before it was called, and none has been issued since
ClearedLast(k) ==
    /\ chats[k].tool = "chat_clear"
    /\ chats[k].pc = "done"
    /\ chats[k].result = "cleared"
    /\ chats[k].before = chats[k].asked
    /\ chats[k].asked = AskedOn(chats[k].notebook_id)

C30_Step ==
    \A k \in 1..Len(chats) : ClearedLast(k) =>
        /\ \A c \in 1..Len(calls') : \A i \in Issued(c) :
            (calls'[c].continue_conversation
                /\ calls'[c].asks[i].nb = chats[k].notebook_id) =>
                    calls'[c].asks[i].conversation_id = 0
        /\ (ChatCalled /\ chats'[Len(chats')].tool = "chat_ask"
                /\ chats'[Len(chats')].continue_conversation
                /\ chats'[Len(chats')].notebook_id = chats[k].notebook_id) =>
                    chats'[Len(chats')].conversation_id = 0

\* C30: After chat_clear on a notebook has returned its confirmation, the
\* next ask on that notebook with continue_conversation set carries no
\* conversation handle (it starts a fresh conversation), for every
\* interleaving of chat_clear with asks on the same notebook that were
\* already in flight when it was called.
C30_ClearStartsFresh == [][C30_Step]_vars

\* the asks of the strategies that return or raise in the step
Completing ==
    UNION {{[nb |-> calls[c].asks[i].nb, returned |-> calls'[c].asks[i].returned] :
                i \in {j \in 1..Len(calls[c].asks) :
                            /\ calls[c].asks[j].status = "inflight"
                            /\ calls'[c].asks[j].status \in {"ok", "failed"}}} : c \in CallIds}

C38_Step ==
    \* an ask that fails or brings back no handle leaves the entry of its notebook
    /\ \A a \in Completing :
        a.returned = 0 => _active_conversations'[a.nb] = _active_conversations[a.nb]
    \* no entry is removed
    /\ \A nb \in NbIds : _active_conversations[nb] # 0 => _active_conversations'[nb] # 0
    \* an entry changes only with an ask on its own notebook
    /\ \A nb \in NbIds : _active_conversations'[nb] # _active_conversations[nb] =>
            \E a \in Completing : a.nb = nb

\* C38: A failed ask, and a successful ask whose result carries no
\* conversation handle, leave the registry entry of its backend context
\* exactly as it was; no query strategy ever removes a registry entry, and an
\* ask on one context never changes the registry entry of another context.
C38_RegistryFrame == [][C38_Step]_vars

\* a continuing query carried the recorded handles of two notebooks; its ask
\* on the first failed, its ask on the second came back without a handle,
\* and both entries are as they were
C38_Witness ==
    \E c \in CallIds :
        /\ calls[c].continue_conversation
        /\ Len(calls[c].asks) >= 2
        /\ calls[c].asks[1].status = "failed"
        /\ calls[c].asks[2].status = "ok"
        /\ calls[c].asks[2].returned = 0
        /\ calls[c].asks[1].nb # calls[c].asks[2].nb
        /\ \A i \in 1..2 :
            /\ calls[c].asks[i].conversation_id # 0
            /\ _active_conversations[calls[c].asks[i].nb] = calls[c].asks[i].conversation_id

\* the step is a step of a persona_synthesize call
SynthStep == synths' # synths

\* C39: synthesize never modifies the session: its latest-answer mapping,
\* query history and context bindings are the same after the call as before,
\* whether the backend calls succeed or fail, so synthesis can be repeated on
\* the same stored answers and never appends to the query history.
C39_SynthesizeReadOnly ==
    [][SynthStep => /\ heap' = heap
                    /\ _persona_sessions' = _persona_sessions]_vars

\* a synthesis has made both backend calls and returned its report, which
\* counts the rounds of a history that it has not lengthened
C39_Witness ==
    \E s \in 1..Len(synths) :
        /\ synths[s].pc = "done"
        /\ synths[s].result.kind = "ok"
        /\ synths[s].backend = <<"add_text", "ask">>
        /\ synths[s].result.rounds = Len(heap[synths[s].session].query_history)
        /\ synths[s].result.personas = Keys(heap[synths[s].session].last_results)

\* the step is a step of the persona_query call c
QueryStep(c) == c > Len(calls) \/ calls'[c] # calls[c]

C32_Step ==
    \A c \in 1..Len(calls') : QueryStep(c) =>
        IF c <= Len(calls) /\ Returns(c)
        THEN \* the step in which c returns writes all of its answers and
             \* its history entry, to its own session only
             LET o == calls[c].session
                 asks == calls'[c].asks
             IN /\ \A i \in 1..Len(asks) :
                    /\ Completed(asks[i])
                    /\ Has(heap'[o].last_results, asks[i].key)
                    /\ Get(heap'[o].last_results, asks[i].key) = asks[i].answer
                /\ Len(heap'[o].query_history) = Len(heap[o].query_history) + 1
                /\ heap'[o].query_history[Len(heap'[o].query_history)].question
                        = calls[c].question
                /\ \A o2 \in 1..Len(heap) : o2 # o => heap'[o2] = heap[o2]
        ELSE \* every other step of c, from its call to the completion of
             \* an ask that is not its last, writes nothing to any session
             heap' = heap

\* C32: While a query's asks are in flight, that query has changed neither
\* the session's latest-answer mapping nor its query history; all of its
\* writes to both are applied in one step without suspension after its last
\* ask completes, so any operation interleaved with it (synthesize,
\* get-session, another query) observes either none or all of that query's
\* results together with its history entry.
C32_AtomicPublish == [][C32_Step]_vars

\* every ask of the second query has completed and the query has not yet
\* resumed; a synthesis that ran meanwhile reported the first query's
\* answers and one round, and the session holds nothing of the second
C32_Witness ==
    \E c \in CallIds, s \in 1..Len(synths) :
        /\ calls[c].pc = "gather"
        /\ Len(calls[c].asks) >= 2
        /\ AllDone(calls[c].asks)
        /\ \E i \in 1..Len(calls[c].asks) : calls[c].asks[i].status = "ok"
        /\ synths[s].session = calls[c].session
        /\ synths[s].pc = "done"
        /\ synths[s].result.kind = "ok"
        /\ synths[s].result.rounds = 1
        /\ LET session == SessionOf(c)
           IN /\ Len(session.query_history) = 1
              /\ session.query_history[1].question # calls[c].question
              /\ session.last_results # <<>>
              /\ \A j \in 1..Len(session.last_results) :
                    session.last_results[j].v.kind = "answer" =>
                        session.last_results[j].v.call # c

\* the query calls on session o that passed validation and have returned
ReturnedOn(o) ==
    {c \in CallIds : calls[c].session = o /\ calls[c].pc = "done"
                        /\ calls[c].result.kind = "ok"}

\* the position of the history entry of call c in the history of session o
EntriesOf(o, c) ==
    {p \in 1..Len(heap[o].query_history) : heap[o].query_history[p].question = c}

Pos(o, c) == CHOOSE p \in EntriesOf(o, c) : TRUE

\* the answer call c got for persona key
AnswerOf(c, key) ==
    LET i == CHOOSE j \in 1..Len(calls[c].asks) : calls[c].asks[j].key = key
    IN calls[c].asks[i].answer

C33_State ==
    \A o \in 1..Len(heap) :
        \* no lost append: one entry for every returned call
        /\ Len(heap[o].query_history) = Cardinality(ReturnedOn(o))
        /\ \A c \in ReturnedOn(o) : Cardinality(EntriesOf(o, c)) = 1
        \* independent and red_blue calls only: every targeted persona has
        \* the answer of the call that returned last among those targeting it
        /\ (\A c \in ReturnedOn(o) : GatherCall(c)) =>
            /\ KeySet(heap[o].last_results) = UNION {Targets(c) : c \in ReturnedOn(o)}
            /\ \A c \in ReturnedOn(o) : \A key \in Targets(c) :
                (\A d \in ReturnedOn(o) : key \in Targets(d) => Pos(o, d) <= Pos(o, c)) =>
                    Get(heap[o].last_results, key) = AnswerOf(c, key)

\* the entries are in completion order: a returning call's entry is the last
C33_Step ==
    \A c \in CallIds : Returns(c) =>
        LET o == calls[c].session
        IN /\ SubSeq(heap'[o].query_history, 1, Len(heap[o].query_history))
                = heap[o].query_history
           /\ Len(heap'[o].query_history) = Len(heap[o].query_history) + 1
           /\ heap'[o].query_history[Len(heap'[o].query_history)].question = c

\* C33: For two query calls running concurrently on the same session, after
\* both complete the history holds both entries (no lost append) in
\* completion order; if both use the independent or red_blue strategy, the
\* latest-answer mapping holds, for each persona targeted by both, the answer
\* of the call that completed later, and for each persona targeted by only
\* one of them, that call's answer.
C33_ConcurrentQueries == [][C33_State' /\ C33_Step]_vars

\* two gather calls overlapped: the second to start returned first.  The
\* persona both targeted has the answer of the first call, which returned
\* last, and a persona only one of them targeted has that call's answer
C33_Witness ==
    \E c, d \in CallIds :
        /\ c < d
        /\ calls[c].session = calls[d].session
        /\ {c, d} \subseteq ReturnedOn(calls[c].session)
        /\ GatherCall(c) /\ GatherCall(d)
        /\ Pos(calls[c].session, d) < Pos(calls[c].session, c)
        /\ Targets(c) \cap Targets(d) # {}
        /\ Targets(c) # Targets(d)
        /\ \A key \in Targets(c) :
            /\ AnswerOf(c, key).kind = "answer"
            /\ Get(SessionOf(c).last_results, key) = AnswerOf(c, key)
        /\ \A key \in Targets(d) : AnswerOf(d, key).kind = "answer"

\* the step is the return of a client.notebooks.create of setup s
CreateStep(s) == setups[s].pc = "create" /\ setups'[s] # setups[s]

C35_State ==
    \* every stored session binds a persona
    /\ \A o \in 1..Len(heap) : heap[o].notebooks # <<>>
    \* a session is stored by a setup that returned its summary, and by no
    \* setup that returned an error
    /\ Len(heap) = Cardinality({s \in 1..Len(setups) : setups[s].result = "ok"})
    /\ \A s \in 1..Len(setups) :
        setups[s].result = "no_notebooks" => setups[s].notebooks = <<>>
    \* a query targets bound personas only, each on its own notebook
    /\ \A c \in CallIds : calls[c].session # 0 =>
        /\ Targets(c) \subseteq KeySet(SessionOf(c).notebooks)
        /\ \A i \in 1..Len(calls[c].asks) :
            /\ Has(SessionOf(c).notebooks, calls[c].asks[i].key)
            /\ calls[c].asks[i].nb = Get(SessionOf(c).notebooks, calls[c].asks[i].key)

C35_Step ==
    \* a creation that succeeds binds its persona to the new notebook and one
    \* that fails binds nothing
    /\ \A s \in 1..Len(setups) : CreateStep(s) =>
        LET key == setups[s].valid_personas[setups[s].i].key
        IN IF nextNb' = nextNb + 1
           THEN /\ KeySet(setups'[s].notebooks) = KeySet(setups[s].notebooks) \cup {key}
                /\ Get(setups'[s].notebooks, key) = nextNb'
                /\ \A k \in KeySet(setups[s].notebooks) \ {key} :
                    Get(setups'[s].notebooks, k) = Get(setups[s].notebooks, k)
           ELSE nextNb' = nextNb /\ setups'[s].notebooks = setups[s].notebooks
    \* the session stored binds what the creations of its setup have bound
    /\ Len(heap') > Len(heap) =>
        /\ Len(heap') = Len(heap) + 1
        /\ \E s \in 1..Len(setups) :
            /\ setups[s].pc = "save" /\ setups'[s].result = "ok"
            /\ heap'[Len(heap')].notebooks = setups[s].notebooks
    \* and keeps binding it
    /\ \A o \in 1..Len(heap) : heap'[o].notebooks = heap[o].notebooks

\* C35: Every session in the store binds at least one persona to a backend
\* context: setup stores a session only if at least one context creation
\* succeeded, and when every creation fails it returns an error and stores
\* nothing. When only some creations fail, the stored session binds exactly
\* the personas whose context was created, and queries on it target only
\* those.
C35_SessionBindsPersona == [][C35_State' /\ C35_Step]_vars

\* two of the four creations of a setup failed; the session binds the two
\* personas left, and a query of all personas has asked exactly those two
C35_Witness ==
    \E s \in 1..Len(setups), c \in CallIds :
        /\ setups[s].result = "ok"
        /\ Len(setups[s].valid_personas) = 4
        /\ calls[c].session # 0
        /\ SessionOf(c).session_id = setups[s].session_id
        /\ Len(SessionOf(c).notebooks) = 2
        /\ SessionOf(c).notebooks = setups[s].notebooks
        /\ ~calls[c].persona_keys.given
        /\ calls[c].pc = "done"
        /\ {calls[c].asks[i].key : i \in 1..Len(calls[c].asks)}
                = KeySet(SessionOf(c).notebooks)

\* every creation of a setup has failed: it returned the error, and the
\* store is as empty as it was
C35_WitnessNone ==
    \E s \in 1..Len(setups) :
        /\ setups[s].result = "no_notebooks"
        /\ setups[s].valid_personas # <<>>
        /\ heap = <<>>

\* the session ids in the store
Stored(store) == {sid \in DOMAIN store : store[sid] # 0}

\* the step stores a session
SaveStep == Len(heap') = Len(heap) + 1

C34_Step ==
    \* a successful setup adds exactly one new id
    /\ SaveStep =>
        /\ Cardinality(Stored(_persona_sessions')) = Cardinality(Stored(_persona_sessions)) + 1
        /\ Stored(_persona_sessions) \subseteq Stored(_persona_sessions')
        \* and leaves the content of the stored sessions as it was
        /\ \A sid \in Stored(_persona_sessions) :
            heap'[_persona_sessions'[sid]] = heap[_persona_sessions[sid]]
    \* an id keeps its session, and no id is removed
    /\ \A sid \in Stored(_persona_sessions) : _persona_sessions'[sid] = _persona_sessions[sid]

\* C34: Every successful setup adds exactly one new session id to the store
\* and leaves every previously stored session retrievable under its own id
\* with unchanged content: a newly generated session id never replaces an
\* existing session, and no operation ever removes a session from the store.
C34_StoreOnlyGrows == [][C34_Step]_vars

\* what holds whatever ids are generated: no id is removed from the store,
\* and a setup that stores a session leaves the session objects as they were
C34_NoRemoval ==
    [][/\ Stored(_persona_sessions) \subseteq Stored(_persona_sessions')
       /\ SaveStep => \A o \in 1..Len(heap) : heap'[o] = heap[o]]_vars

\* the get_client calls that have returned a client
Served == {g \in 1..Len(gets) : gets[g].tool = "get_client" /\ gets[g].pc = "done"
                                    /\ ~gets[g].raised}

\* close_client has not been called
NeverClosed == \A g \in 1..Len(gets) : gets[g].tool # "close_client"

\* C31: The shared backend client is initialized once and reused: for any
\* number of tool invocations calling get_client, including invocations that
\* overlap in time while no client is connected yet, at most one client is
\* constructed and entered, and every caller receives that same instance
\* until close_client is called.
C31_SingleClient ==
    NeverClosed =>
        /\ Cardinality({o \in 1..Len(clients) : clients[o].is_connected}) <= 1
        /\ \A g, h \in Served : gets[g].result = gets[h].result

\* what holds of calls that do not overlap: a call made while a client is
\* connected constructs nothing and returns the global
C31_ReuseConnected ==
    [][(Len(gets') = Len(gets) + 1 /\ gets'[Len(gets')].tool = "get_client"
            /\ IsConnected(_client)) =>
        /\ clients' = clients
        /\ gets'[Len(gets')].pc = "done"
        /\ gets'[Len(gets')].result = _client]_vars

\* C36: With the shipped catalog, recommend returns exactly maxCount personas
\* for every classified domain list and every maxCount in [1,4]: the greedy
\* pass with the per-stance cap always fills the selection, so the
\* forced-balance passes, which run only on a full selection, are always
\* eligible to run.
C36_AlwaysFull ==
    rec.pc # "idle" /\ rec.max_count \in 1..4 =>
        /\ rec.pc \in {"ensure_red", "ensure_blue", "done"} =>
                Len(rec.selected) = rec.max_count
        /\ rec.pc = "done" =>
            /\ Len(rec.result) = rec.max_count
            /\ NoDuplicates(rec.result)

\* a call with max_count 4 on a topic that one persona of the catalog
\* shares a domain with has returned four personas: that one and three of
\* the four universal ones
C36_Witness ==
    /\ rec.pc = "done"
    /\ rec.max_count = 4
    /\ Len(rec.scored) = 5
    /\ Cardinality({i \in 1..5 : Wildcard(rec.scored[i])}) = 4
    /\ Len(rec.result) = 4
    /\ Cardinality({i \in 1..4 : Wildcard(rec.result[i])}) = 3

C37_State ==
    rec.pc # "idle" /\ rec.max_count = 1 =>
        \* the greedy pass selects the top-scored candidate
        /\ rec.pc \in {"ensure_red", "ensure_blue", "done"} =>
            /\ Len(rec.selected) = 1
            /\ rec.pc = "ensure_red" => rec.selected[1] = rec.scored[1]
        \* after the critical pass the selection is the top-scored candidate if
        \* it is critical and devil_advocate otherwise
        /\ rec.pc \in {"ensure_blue", "done"} =>
            rec.selected = IF Stance(rec.scored[1]) = "red"
                           THEN <<rec.scored[1]>> ELSE <<"devil_advocate">>
        /\ rec.pc = "done" =>
            /\ rec.result = rec.selected
            /\ Stance(rec.result[1]) = "red"

Dispatched(c) == c <= Len(calls) /\ calls[c].strategy \in Strategies

\* call c has returned its result, with its history entry appended
ReturnedWithEntry(c) ==
    /\ c <= Len(calls)
    /\ calls[c].pc = "done"
    /\ calls[c].result.kind = "ok"
    /\ \E p \in 1..Len(SessionOf(c).query_history) :
            SessionOf(c).query_history[p].question = calls[c].question

\* a call that has returned has made one ask per targeted persona, N asks
\* for a cascade over N personas, and every one of them has completed; a
\* call with an ask that has not completed has not returned
C40_State ==
    \A c \in CallIds : Dispatched(c) =>
        /\ calls[c].pc = "done" =>
            /\ Len(calls[c].asks) = Cardinality(Targets(c))
            /\ {calls[c].asks[i].key : i \in 1..Len(calls[c].asks)} = Targets(c)
            /\ \A i \in 1..Len(calls[c].asks) : Completed(calls[c].asks[i])
        /\ Len(calls[c].asks) <= Cardinality(Targets(c))
        /\ (\E i \in 1..Len(calls[c].asks) : ~Completed(calls[c].asks[i])) =>
                calls[c].pc # "done"

\* C40: If every backend ask eventually completes (with success or
\* failure), every query call that passes validation eventually returns with
\* its history entry appended, for each of the three strategies; a cascading
\* query over N personas returns after exactly N asks and an independent or
\* red_blue query after exactly one ask per targeted persona. Conversely, a
\* query does not return while one of its asks never completes.
C40_QueryTerminates ==
    /\ []C40_State
    /\ \A c \in 1..MaxCalls : Dispatched(c) ~> ReturnedWithEntry(c)

\* a cascade over two personas has returned after two asks, the first of
\* which failed, and a red_blue query of the same two personas after one
\* ask for each
C40_Witness ==
    \E c, d \in CallIds :
        /\ ReturnedWithEntry(c) /\ ReturnedWithEntry(d)
        /\ calls[c].strategy = "cascading"
        /\ Len(calls[c].active_personas) = 2
        /\ Len(calls[c].asks) = 2
        /\ calls[c].asks[1].status = "failed"
        /\ calls[d].strategy = "red_blue"
        /\ Len(calls[d].active_personas) = 2
        /\ Len(calls[d].asks) = 2

====
